---- MODULE Spec2Model ----
(***************************************************************************)
(* flecs / Chipmunk2D integration: the move-only handle wrappers (Space,   *)
(* Body, Shape), the chipmunk2d module (step_space system and the four     *)
(* OnSet / OnRemove observers) and the projectile tests' collision handler *)
(* and removal system.                                                     *)
(*                                                                         *)
(* The foreign heap is modelled per handle (allocation state, Space        *)
(* membership, user-data, number of release calls).  The component store   *)
(* is modelled by what it asks of the wrappers: default construction,      *)
(* move construction / assignment when a row moves between tables, the     *)
(* swap-with-last on row removal, destruction, and the order in which it   *)
(* emits OnSet / OnRemove relative to those.                               *)
(***************************************************************************)
EXTENDS Integers, Sequences, FiniteSets, TLC

\* ---------------------------------------------------------------- bounds
MaxEntities == 2
MaxHandles == 5
MaxDt == 2

\* nullptr
NULL == 0

SysImpls == {"simple_struct", "unique_ptr"}
Variants == {"simple_struct", "unique_ptr", "first", "second"}
Kinds == {"space", "body", "shape"}

VARIABLES
    impl,     \* which translation unit is running
    status,   \* "running" | "aborted" (assert / cpAssertHard / ecs_check) | "crashed" (UB) | "done"
    heap,     \* foreign objects, by handle
    spaceW,   \* the Space singleton component: <<>> (absent) or <<ptr>>
    slot,     \* slot[k][e]: the Body / Shape component of e: <<>> (absent) or <<ptr>>
    loc,      \* wrappers outside the store: loc.a is the temporary of set(); <<>> or <<ptr>>
    wkind,    \* kind of the wrappers in loc ("none" when there is none)
    created,  \* number of entity ids handed out
    alive,    \* live entities
    order,    \* storage order of the live entities (rows of one table = same archetype)
    coll,     \* coll[e]: targets of the (Collision, target) pairs on e
    hooked,   \* hooked[k][e]: OnSet observer runs for e's k minus OnRemove observer runs (capped at 2)
    todo,     \* calls the component store still has to make for the current operation
    pc,       \* position inside ecs.progress(): "idle" | "pre" | "stepping" | "post" | "merge";
              \* for wrappers used on their own: the statement executed last
    frameDt,  \* delta_time passed to ecs.progress
    stepDt,   \* dt of the last cpSpaceStep
    steps,    \* cpSpaceStep calls made in the current frame
    defq,     \* deferred commands queued on stage 0 during the frame
    handler,  \* the test whose beginFunc is installed on the space's wildcard handler
    frame,    \* ecs.progress() calls made by the test's loop
    pos,      \* pos[b]: x of body b, in 1/PosScale units
    vel,      \* vel[b]: x velocity of body b, in 1/VelScale units per second
    arbs      \* arbiters of the space: [a, b, state] for the shape pairs in contact;
              \* state "first" (begin not called yet) | "normal" | "ignore"

\* the entity ids of the world and the pointers the allocator can hand out: at
\* most MaxEntities and MaxHandles where the application is left open, as
\* many as the test creates in the two test scenes
Entities == DOMAIN coll
Handles == DOMAIN heap

SceneVars == <<handler, frame, pos, vel, arbs>>

vars == <<SceneVars, impl, status, heap, spaceW, slot, loc, wkind, created, alive, order,
          coll, hooked, todo, pc, frameDt, stepDt, steps, defq>>

\* ------------------------------------------------------- foreign heap
NoObj == [kind |-> "none", st |-> "none", inSpace |-> FALSE, frees |-> 0,
          user |-> 0, sbody |-> 0, ctype |-> "none"]
EmptyHeap == [h \in 1..MaxHandles |-> NoObj]

Ok(hp) == [ok |-> TRUE, hp |-> hp]
Fail(hp) == [ok |-> FALSE, hp |-> hp]

Fresh(hp) == {h \in DOMAIN hp : hp[h].kind = "none" /\ \A g \in DOMAIN hp : g < h => hp[g].kind # "none"}

\* cpSpaceNew / cpBodyNew / cp*ShapeNew: a live object that is in no space
cpNew(hp, h, k, b, t) ==
    [hp EXCEPT ![h] = [kind |-> k, st |-> "live", inSpace |-> FALSE, frees |-> 0,
                       user |-> 0, sbody |-> b, ctype |-> t]]

\* cpSpaceFree / cpBodyFree / cpShapeFree
cpFree(hp, h) == [hp EXCEPT ![h].st = "freed", ![h].frees = IF @ < 2 THEN @ + 1 ELSE @]

\* cpBodyGetSpace(ptr) / cpShapeGetSpace(ptr) != nullptr
InSpace(hp, h) == hp[h].inSpace

\* ------------------------------------------------------------ wrappers
\* The release sequence of a destructor: if (ptr) { assert(not in space); free }
AssertsMembership(v, k) == k # "space" /\ ~(v = "unique_ptr" /\ k = "body")

ReleaseNoAssert(v, k, hp, p) == IF p = NULL THEN Ok(hp) ELSE Ok(cpFree(hp, p))
Release(v, k, hp, p) ==
    IF p = NULL THEN Ok(hp)
    ELSE IF AssertsMembership(v, k) /\ InSpace(hp, p) THEN Fail(hp)
    ELSE Ok(cpFree(hp, p))

\* ~Space / ~Body / ~Shape, SpaceDeleter / BodyDeleter
Dtor(v, k, hp, p) == Release(v, k, hp, p)

\* operator=(T&&): the result is [ok, hp, dst, src]
Moved(r, dst, src) == [ok |-> r.ok, hp |-> r.hp, dst |-> dst, src |-> src]
IsUniquePtr(v, k) == v = "unique_ptr" /\ k \in {"space", "body"}

\* operator=(T&&) without the test this != &other
MoveAssignUnguarded(v, k, hp, dst, src, self) ==
    LET r == Release(v, k, hp, dst) IN
    IF r.ok THEN Moved(r, IF self THEN NULL ELSE src, NULL) ELSE Moved(r, dst, src)
MoveAssignKeepsSource(v, k, hp, dst, src, self) ==
    IF self THEN Moved(Ok(hp), dst, src)
    ELSE LET r == Release(v, k, hp, dst) IN
         IF r.ok THEN Moved(r, src, src) ELSE Moved(r, dst, src)
MoveAssign(v, k, hp, dst, src, self) ==
    IF self THEN Moved(Ok(hp), dst, src)
    ELSE IF v = "first" THEN Moved(Ok(hp), src, NULL)
    ELSE IF v = "second" \/ (v = "simple_struct" /\ k = "space") THEN
         IF dst # NULL THEN Moved(Fail(hp), dst, src) ELSE Moved(Ok(hp), src, NULL)
    ELSE \* simple_struct Body / Shape, unique_ptr reset(): release the old handle
         LET r == Release(v, k, hp, dst) IN
         IF r.ok THEN Moved(r, src, NULL) ELSE Moved(r, dst, src)

\* T(T&& other)
MoveCtor(v, k, hp, src) ==
    IF v = "first" \/ IsUniquePtr(v, k) THEN Moved(Ok(hp), src, NULL)
    ELSE MoveAssign(v, k, hp, NULL, src, FALSE)

\* operator cp*(), unique_ptr::get(): [ok, val]
CastNoAssert(v, k, p) == [ok |-> TRUE, val |-> p]
Cast(v, k, p) ==
    IF v = "first" \/ IsUniquePtr(v, k) THEN [ok |-> TRUE, val |-> p]
    ELSE [ok |-> p # NULL, val |-> p]
\* T(): the empty wrapper (the first variant's Space() is not used by the store)
DefaultCtor(v, k) == NULL
\* the first variant's Space() { ptr = cpSpaceNew(); }
DefaultAllocates(v, k) == v = "first" /\ k = "space"

\* ------------------------------------------------- Chipmunk2D space calls
\* Each returns [ok, hp]; ok = FALSE is a cpAssertHard failure (abort()).
cpBodySetUserData(hp, b, e) == [hp EXCEPT ![b].user = e]
cpBodyGetUserData(hp, b) == hp[b].user

cpSpaceAdd(hp, sp, h, locked) ==
    IF hp[h].inSpace \/ locked THEN Fail(hp) ELSE Ok([hp EXCEPT ![h].inSpace = TRUE])
cpSpaceAddBody(hp, sp, b, locked) == cpSpaceAdd(hp, sp, b, locked)
\* the space's static body (cpSpaceGetStaticBody) stands under the space's own
\* handle: it belongs to the space from cpSpaceNew on, its user data is never set
cpSpaceGetStaticBody(sp) == sp
cpSpaceAddShape(hp, sp, s, locked) ==
    IF hp[s].sbody # cpSpaceGetStaticBody(sp) /\ ~hp[hp[s].sbody].inSpace
    THEN Fail(hp) ELSE cpSpaceAdd(hp, sp, s, locked)

cpSpaceRemove(hp, sp, h, locked) ==
    IF ~hp[h].inSpace \/ locked THEN Fail(hp) ELSE Ok([hp EXCEPT ![h].inSpace = FALSE])
cpSpaceRemoveBody(hp, sp, b, locked) == cpSpaceRemove(hp, sp, b, locked)
cpSpaceRemoveShape(hp, sp, s, locked) == cpSpaceRemove(hp, sp, s, locked)

\* A call that reads or writes a freed object is undefined behaviour.
Freed(hp, h) == h # NULL /\ hp[h].st = "freed"
ShapeBodyFreed(hp, s) == hp[s].kind = "shape" /\ Freed(hp, hp[s].sbody)
Dangling(hp) == \E h \in Handles :
    hp[h].inSpace /\ (Freed(hp, h) \/ ShapeBodyFreed(hp, h))

\* ----------------------------------------------------- component store
NoSlots == [k \in {"body", "shape"} |-> [e \in 1..MaxEntities |-> <<>>]]
Has(sl, k, e) == sl[k][e] # <<>>
\* the entities of the two tests: ecs.entity("arrow") comes first, the apple
\* (projectile_collision) or the first apple of the row next
Arrow == 1
Apple == 2
\* what e carries next to Body, Shape and Collision: the arrow its name, the
\* apples of indestructable_projectile the tag of add<Apple>(); in every other
\* world all entities carry the same (a name each, or nothing)
Tags(hd, e) ==
    IF hd = "indestructable_projectile" /\ e # Arrow THEN "Apple" ELSE "Name"
\* the table of e: the components it has
Arch(sl, cl, e) == <<Has(sl, "body", e), Has(sl, "shape", e), cl[e], Tags(handler, e)>>
TableOf(sl, cl, ord, e) == SelectSeq(ord, LAMBDA x : Arch(sl, cl, x) = Arch(sl, cl, e))
Last(t) == t[Len(t)]
LastOf(sl, cl, ord, e) == Last(TableOf(sl, cl, ord, e))
Without(ord, e) == SelectSeq(ord, LAMBDA x : x # e)
\* the row of e leaves its table: the table's last row takes its place
SwapRemove(ord, e, l) ==
    IF l = e THEN Without(ord, e)
    ELSE Without([i \in 1..Len(ord) |-> IF ord[i] = e THEN l ELSE IF ord[i] = l THEN e ELSE ord[i]], e)

\* move_dtor(dst, src): "dst = std::move(src); src.~T()": [ok, hp, dst]
MoveDtorEnd(d, dst) == [ok |-> d.ok, hp |-> d.hp, dst |-> dst]
MoveDtorStep(v, k, m) ==
    MoveDtorEnd(IF m.ok THEN Dtor(v, k, m.hp, m.src) ELSE Fail(m.hp), m.dst)
move_dtor(v, k, hp, dst, src) == MoveDtorStep(v, k, MoveAssign(v, k, hp, dst, src, FALSE))

\* One column of a row that leaves its table (flecs_table_move / flecs_table_delete).
\* st = [ok, hp, slot]; l is the last row of the source table.
\*  - a dropped component: its destructor when the row is the last one, else
\*    move_dtor(dst = this row, src = last row): "dst = std::move(src); src.~T()"
\*  - a kept component: move-constructed into the new table; the old storage is
\*    destructed (last row) or move-assigned from the last row
\*  - an added component: default-constructed
ColumnEnd(d, sl) == [ok |-> d.ok, hp |-> d.hp, slot |-> sl]
ColumnDropped(st, k, e, l, m) ==
    ColumnEnd(m, [st.slot EXCEPT ![k][e] = <<>>, ![k][l] = <<m.dst>>])
ColumnRefilled(st, k, e, l, moved, m) ==
    ColumnEnd(m, [st.slot EXCEPT ![k][e] = <<moved>>, ![k][l] = <<m.dst>>])
ColumnKept(v, k, st, e, l, c) ==
    IF ~c.ok THEN ColumnEnd(c, st.slot)
    ELSE IF l = e THEN
        ColumnEnd(Dtor(v, k, c.hp, c.src), [st.slot EXCEPT ![k][e] = <<c.dst>>])
    ELSE ColumnRefilled(st, k, e, l, c.dst,
                        move_dtor(v, k, c.hp, c.src, st.slot[k][l][1]))
Column(v, k, st, e, l, drop, add) ==
    IF ~st.ok THEN st
    ELSE IF ~Has(st.slot, k, e) THEN
        IF k \in add THEN [st EXCEPT !.slot[k][e] = <<DefaultCtor(v, k)>>] ELSE st
    ELSE IF k \in drop THEN
        IF l = e THEN
            ColumnEnd(Dtor(v, k, st.hp, st.slot[k][e][1]), [st.slot EXCEPT ![k][e] = <<>>])
        ELSE ColumnDropped(st, k, e, l,
                           move_dtor(v, k, st.hp, st.slot[k][e][1], st.slot[k][l][1]))
    ELSE ColumnKept(v, k, st, e, l, MoveCtor(v, k, st.hp, st.slot[k][e][1]))

\* The row of e moves to another table (or is deleted): [ok, hp, slot, order]
TableMoveEnd(s, o) == [ok |-> s.ok, hp |-> s.hp, slot |-> s.slot, order |-> o]
TableMoveRow(v, st, e, l, drop, add) ==
    Column(v, "shape", Column(v, "body", st, e, l, drop, add), e, l, drop, add)
TableMoveFrom(v, hp, sl, ord, e, l, drop, add, delete) ==
    TableMoveEnd(TableMoveRow(v, [ok |-> TRUE, hp |-> hp, slot |-> sl], e, l, drop, add),
                 IF delete THEN SwapRemove(ord, e, l) ELSE Append(SwapRemove(ord, e, l), e))
TableMove(v, hp, sl, cl, ord, e, drop, add, delete) ==
    TableMoveFrom(v, hp, sl, ord, e, LastOf(sl, cl, ord, e), drop, add, delete)
\* ------------------------------------------------------ module import
SpaceHandle == 1

\* chipmunk2d::chipmunk2d: cpSpaceNew, assert, then the Space singleton is set
\* from the raw pointer (a temporary wrapper moved into the default-constructed
\* component, simple_struct) or emplaced (unique_ptr)
chipmunk2d(v) ==
    LET hp == cpNew(EmptyHeap, SpaceHandle, "space", NULL, "none")
        m == IF v = "unique_ptr" THEN Moved(Ok(hp), SpaceHandle, NULL)
             ELSE MoveAssign(v, "space", hp, DefaultCtor(v, "space"), SpaceHandle, FALSE)
        d == Dtor(v, "space", m.hp, m.src) IN
    [hp |-> d.hp, spaceW |-> <<m.dst>>]

InitWorld(v) ==
    /\ impl = v
    /\ status = "running"
    /\ heap = chipmunk2d(v).hp
    /\ spaceW = chipmunk2d(v).spaceW
    /\ slot = NoSlots
    /\ loc = [a |-> <<>>, b |-> <<>>]
    /\ wkind = "none"
    /\ created = 0
    /\ alive = {}
    /\ order = <<>>
    /\ coll = [e \in 1..MaxEntities |-> {}]
    /\ hooked = [k \in {"body", "shape"} |-> [e \in 1..MaxEntities |-> 0]]
    /\ todo = <<>>
    /\ pc = "idle"
    /\ frameDt = 0
    /\ stepDt = 0
    /\ steps = 0
    /\ defq = <<>>
    /\ handler = "projectile_collision"
    /\ frame = 0
    /\ pos = [h \in 1..MaxHandles |-> 0]
    /\ vel = [h \in 1..MaxHandles |-> 0]
    /\ arbs = {}

Init == InitWorld("simple_struct")
InitUniquePtr == InitWorld("unique_ptr")

\* ----------------------------------------------------------- helpers
Item(op, k, e, h) == [op |-> op, k |-> k, e |-> e, h |-> h]
Quiet == status = "running" /\ pc = "idle" /\ todo = <<>>
AtHead(op, k) == status = "running" /\ todo # <<>> /\ Head(todo).op = op /\ Head(todo).k = k
Locked == pc = "stepping"
Bump(n) == IF n < 2 THEN n + 1 ELSE n
Drop(n) == IF n > 0 THEN n - 1 ELSE n

\* what is left of the operation after a handler returned (ok) or aborted
Done(ok) ==
    /\ status' = IF ok THEN status ELSE "aborted"
    /\ todo' = IF ok THEN Tail(todo) ELSE todo
Crash ==
    /\ status' = "crashed"
    /\ UNCHANGED <<SceneVars, impl, heap, spaceW, slot, loc, wkind, created, alive, order, coll,
                   hooked, todo, pc, frameDt, stepDt, steps, defq>>

FrameVars == <<pc, frameDt, stepDt, steps, defq>>
EcsVars == <<created, alive, order, coll>>

\* OnRemove events of the components e has, in component id order (Body, Shape)
RemoveEvents(sl, e) ==
    (IF Has(sl, "body", e) THEN <<Item("on_remove", "body", e, NULL)>> ELSE <<>>) \o
    (IF Has(sl, "shape", e) THEN <<Item("on_remove", "shape", e, NULL)>> ELSE <<>>)

\* ------------------------------------------------- application calls
\* ecs.entity()
AppNewEntity ==
    /\ Quiet
    /\ created < MaxEntities
    /\ created' = created + 1
    /\ alive' = alive \cup {created + 1}
    /\ order' = Append(order, created + 1)
    /\ UNCHANGED <<SceneVars, impl, status, heap, spaceW, slot, loc, wkind, coll, hooked, todo>>
    /\ UNCHANGED FrameVars

SetCalls(k, e) ==
    <<Item("get_mut", k, e, NULL), Item("assign", k, e, NULL),
      Item("on_set", k, e, NULL), Item("dtor_tmp", k, e, NULL)>>

\* body = cpBodyNew(...); e.set<Body>(body)
AppSetBody(e) ==
    /\ Quiet
    /\ e \in alive
    /\ \E h \in Fresh(heap) :
        /\ heap' = cpNew(heap, h, "body", NULL, "none")
        /\ loc' = [loc EXCEPT !.a = <<h>>]
    /\ wkind' = "body"
    /\ todo' = SetCalls("body", e)
    /\ UNCHANGED <<SceneVars, impl, status, spaceW, slot, hooked>>
    /\ UNCHANGED EcsVars
    /\ UNCHANGED FrameVars

\* shape = cpCircleShapeNew(body, ...); cpShapeSetCollisionType(shape, t); e.set<Shape>(shape)
AppSetShape(e, t) ==
    /\ Quiet
    /\ e \in alive
    /\ Has(slot, "body", e) /\ slot["body"][e] # <<NULL>>
    /\ ~Freed(heap, slot["body"][e][1])
    /\ \E h \in Fresh(heap) :
        /\ heap' = cpNew(heap, h, "shape", slot["body"][e][1], t)
        /\ loc' = [loc EXCEPT !.a = <<h>>]
    /\ wkind' = "shape"
    /\ todo' = SetCalls("shape", e)
    /\ UNCHANGED <<SceneVars, impl, status, spaceW, slot, hooked>>
    /\ UNCHANGED EcsVars
    /\ UNCHANGED FrameVars

\* shape = cpSegmentShapeNew(cpSpaceGetStaticBody(space), ...);
\* cpShapeSetCollisionType(shape, t); e.set<Shape>(shape), on an entity that
\* has no Body and no Shape yet (the "ground" entity)
AppSetStaticShape(e, t) ==
    /\ Quiet
    /\ e \in alive
    /\ spaceW # <<>>
    /\ slot["body"][e] = <<>>
    /\ slot["shape"][e] = <<>>
    /\ \E h \in Fresh(heap) :
        /\ heap' = cpNew(heap, h, "shape", cpSpaceGetStaticBody(spaceW[1]), t)
        /\ loc' = [loc EXCEPT !.a = <<h>>]
    /\ wkind' = "shape"
    /\ todo' = SetCalls("shape", e)
    /\ UNCHANGED <<SceneVars, impl, status, spaceW, slot, hooked>>
    /\ UNCHANGED EcsVars
    /\ UNCHANGED FrameVars

\* body = cpBodyNew(...); e.emplace<Body>(body)
AppEmplaceBody(e) ==
    /\ Quiet
    /\ e \in alive
    /\ \E h \in Fresh(heap) :
        /\ heap' = cpNew(heap, h, "body", NULL, "none")
        /\ todo' = <<Item("emplace", "body", e, h), Item("on_set", "body", e, NULL)>>
    /\ UNCHANGED <<SceneVars, impl, status, spaceW, slot, loc, wkind, hooked>>
    /\ UNCHANGED EcsVars
    /\ UNCHANGED FrameVars

\* e.remove<Body>() / e.remove<Shape>()
AppRemove(k, e) ==
    /\ Quiet
    /\ e \in alive
    /\ Has(slot, k, e)
    /\ todo' = <<Item("on_remove", k, e, NULL), Item("commit_remove", k, e, NULL)>>
    /\ UNCHANGED <<SceneVars, impl, status, heap, spaceW, slot, loc, wkind, hooked>>
    /\ UNCHANGED EcsVars
    /\ UNCHANGED FrameVars

DeleteCalls(sl, e) ==
    <<Item("cleanup", "none", e, NULL)>> \o RemoveEvents(sl, e) \o <<Item("delete", "none", e, NULL)>>

\* e.destruct()
AppDestruct(e) ==
    /\ Quiet
    /\ e \in alive
    /\ todo' = DeleteCalls(slot, e)
    /\ UNCHANGED <<SceneVars, impl, status, heap, spaceW, slot, loc, wkind, hooked>>
    /\ UNCHANGED EcsVars
    /\ UNCHANGED FrameVars
\* ------------------------------------------- component store, per call
\* ecs_get_mut_id: adds the component (default-constructed) when e has none
ecs_get_mut(k) ==
    /\ AtHead("get_mut", k)
    /\ LET e == Head(todo).e
           r == IF Has(slot, k, e)
                THEN [ok |-> TRUE, hp |-> heap, slot |-> slot, order |-> order]
                ELSE TableMove(impl, heap, slot, coll, order, e, {}, {k}, FALSE) IN
        /\ heap' = r.hp /\ slot' = r.slot /\ order' = r.order
        /\ Done(r.ok)
    /\ UNCHANGED <<SceneVars, impl, spaceW, loc, wkind, created, alive, coll, hooked>>
    /\ UNCHANGED FrameVars

\* flecs::set: dst = FLECS_MOV(value)
set_assign(k) ==
    /\ AtHead("assign", k)
    /\ LET e == Head(todo).e
           m == MoveAssign(impl, k, heap, slot[k][e][1], loc.a[1], FALSE) IN
        /\ heap' = m.hp
        /\ slot' = [slot EXCEPT ![k][e] = <<m.dst>>]
        /\ loc' = [loc EXCEPT !.a = <<m.src>>]
        /\ Done(m.ok)
    /\ UNCHANGED <<SceneVars, impl, spaceW, wkind, hooked>>
    /\ UNCHANGED EcsVars
    /\ UNCHANGED FrameVars

\* the temporary wrapper of set() is destroyed at the end of the full expression
destroy_temporary(k) ==
    /\ AtHead("dtor_tmp", k)
    /\ LET d == Dtor(impl, k, heap, loc.a[1]) IN
        /\ heap' = d.hp
        /\ Done(d.ok)
    /\ loc' = [loc EXCEPT !.a = <<>>]
    /\ wkind' = "none"
    /\ UNCHANGED <<SceneVars, impl, spaceW, slot, hooked>>
    /\ UNCHANGED EcsVars
    /\ UNCHANGED FrameVars

\* flecs::emplace: ecs_emplace_id checks that e does not have the component and
\* adds it unconstructed; the wrapper is then constructed in place from the pointer
ecs_emplace(k) ==
    /\ AtHead("emplace", k)
    /\ LET e == Head(todo).e
           r == TableMove(impl, heap, slot, coll, order, e, {}, {k}, FALSE) IN
        IF Has(slot, k, e)
        THEN Done(FALSE) /\ UNCHANGED <<heap, slot, order>>
        ELSE /\ heap' = r.hp
             /\ slot' = [r.slot EXCEPT ![k][e] = <<Head(todo).h>>]
             /\ order' = r.order
             /\ Done(r.ok)
    /\ UNCHANGED <<SceneVars, impl, spaceW, loc, wkind, created, alive, coll, hooked>>
    /\ UNCHANGED FrameVars

\* ------------------------------------------------ chipmunk2d observers
\* An observer <T, Space> with the Space term sourced from the singleton does
\* not match (and so does not run) when the singleton has no Space.
ObserverMatches == spaceW # <<>>

\* [ok, hp]: cpBodySetUserData(body, entity.id()); cpSpaceAddBody(space, body)
BodyOnSetNoUserData(v, hp, e, b, sp, locked) ==
    LET cb == Cast(v, "body", b)
        cs == Cast(v, "space", sp) IN
    IF ~cb.ok \/ ~cs.ok THEN Fail(hp) ELSE cpSpaceAddBody(hp, cs.val, cb.val, locked)
BodyOnSet(v, hp, e, b, sp, locked) ==
    LET cb == Cast(v, "body", b) IN
    IF ~cb.ok THEN Fail(hp)
    ELSE LET hp1 == cpBodySetUserData(hp, cb.val, e)
             cs == Cast(v, "space", sp) IN
         IF ~cs.ok THEN Fail(hp1) ELSE cpSpaceAddBody(hp1, cs.val, cb.val, locked)

\* [ok, hp]: cpSpaceRemoveBody(space, body)
BodyOnRemoveNoop(v, hp, e, b, sp, locked) == Ok(hp)
BodyOnRemove(v, hp, e, b, sp, locked) ==
    LET cb == Cast(v, "body", b)
        cs == Cast(v, "space", sp) IN
    IF ~cb.ok \/ ~cs.ok THEN Fail(hp) ELSE cpSpaceRemoveBody(hp, cs.val, cb.val, locked)

\* [ok, hp]: cpSpaceAddShape(space, shape)
ShapeOnSetNoop(v, hp, e, s, sp, locked) == Ok(hp)
ShapeOnSet(v, hp, e, s, sp, locked) ==
    LET c == Cast(v, "shape", s)
        cs == Cast(v, "space", sp) IN
    IF ~c.ok \/ ~cs.ok THEN Fail(hp) ELSE cpSpaceAddShape(hp, cs.val, c.val, locked)

\* [ok, hp]: cpSpaceRemoveShape(space, shape)
ShapeOnRemove(v, hp, e, s, sp, locked) ==
    LET c == Cast(v, "shape", s)
        cs == Cast(v, "space", sp) IN
    IF ~c.ok \/ ~cs.ok THEN Fail(hp) ELSE cpSpaceRemoveShape(hp, cs.val, c.val, locked)

ObserverRest == <<SceneVars, impl, spaceW, slot, loc, wkind>>

body_on_set ==
    /\ AtHead("on_set", "body")
    /\ LET e == Head(todo).e IN
        IF ~ObserverMatches THEN Done(TRUE) /\ UNCHANGED <<heap, hooked>>
        ELSE LET r == BodyOnSet(impl, heap, e, slot["body"][e][1], spaceW[1], Locked) IN
            /\ heap' = r.hp
            /\ hooked' = [hooked EXCEPT !["body"][e] = Bump(@)]
            /\ Done(r.ok)
    /\ UNCHANGED ObserverRest
    /\ UNCHANGED EcsVars
    /\ UNCHANGED FrameVars

body_on_remove ==
    /\ AtHead("on_remove", "body")
    /\ LET e == Head(todo).e IN
        IF ~ObserverMatches THEN Done(TRUE) /\ UNCHANGED <<heap, hooked>>
        ELSE LET r == BodyOnRemove(impl, heap, e, slot["body"][e][1], spaceW[1], Locked) IN
            /\ heap' = r.hp
            /\ hooked' = [hooked EXCEPT !["body"][e] = Drop(@)]
            /\ Done(r.ok)
    /\ UNCHANGED ObserverRest
    /\ UNCHANGED EcsVars
    /\ UNCHANGED FrameVars

shape_on_set ==
    /\ AtHead("on_set", "shape")
    /\ LET e == Head(todo).e IN
        IF ~ObserverMatches THEN Done(TRUE) /\ UNCHANGED <<heap, hooked>>
        ELSE LET r == ShapeOnSet(impl, heap, e, slot["shape"][e][1], spaceW[1], Locked) IN
            /\ heap' = r.hp
            /\ hooked' = [hooked EXCEPT !["shape"][e] = Bump(@)]
            /\ Done(r.ok)
    /\ UNCHANGED ObserverRest
    /\ UNCHANGED EcsVars
    /\ UNCHANGED FrameVars

\* cpSpaceRemoveShape activates shape->body and unlinks the shape from it: with
\* the body already freed the call either crashes or goes through.
\* cpSpaceRemoveShape also drops the arbiters the space caches for the shape
cpSpaceFilterArbiters(ab, s) == {x \in ab : x.a # s /\ x.b # s}

shape_on_remove ==
    /\ AtHead("on_remove", "shape")
    /\ LET e == Head(todo).e IN
        IF ~ObserverMatches THEN Done(TRUE) /\ UNCHANGED <<heap, hooked, arbs>>
        ELSE LET r == ShapeOnRemove(impl, heap, e, slot["shape"][e][1], spaceW[1], Locked) IN
            /\ heap' = r.hp
            /\ arbs' = IF r.ok THEN cpSpaceFilterArbiters(arbs, slot["shape"][e][1]) ELSE arbs
            /\ hooked' = [hooked EXCEPT !["shape"][e] = Drop(@)]
            /\ Done(r.ok)
    /\ UNCHANGED <<handler, frame, pos, vel, impl, spaceW, slot, loc, wkind>>
    /\ UNCHANGED EcsVars
    /\ UNCHANGED FrameVars

shape_on_remove_crash ==
    /\ AtHead("on_remove", "shape")
    /\ ObserverMatches
    /\ slot["shape"][Head(todo).e] # <<NULL>>
    /\ ShapeBodyFreed(heap, slot["shape"][Head(todo).e][1])
    /\ Crash
\* ------------------------------------- component store: rows leaving
\* remove<T>: after the OnRemove observers, the row moves to the table without T
ecs_remove_commit(k) ==
    /\ AtHead("commit_remove", k)
    /\ LET e == Head(todo).e
           r == TableMove(impl, heap, slot, coll, order, e, {k}, {}, FALSE) IN
        /\ heap' = r.hp /\ slot' = r.slot /\ order' = r.order
        /\ Done(r.ok)
    /\ UNCHANGED <<SceneVars, impl, spaceW, loc, wkind, created, alive, coll, hooked>>
    /\ UNCHANGED FrameVars

\* ecs_delete, first part: the OnDeleteTarget policy removes every pair that
\* targets e from the other entities, one entity at a time; the row of each
\* moves to the table without the pair
Targeting(cl, ord, e) == SelectSeq(ord, LAMBDA x : e \in cl[x])
ecs_delete_cleanup ==
    /\ AtHead("cleanup", "none")
    /\ LET e == Head(todo).e
           xs == Targeting(coll, order, e) IN
        IF xs = <<>>
        THEN Done(TRUE) /\ UNCHANGED <<heap, slot, order, coll>>
        ELSE LET r == TableMove(impl, heap, slot, coll, order, Head(xs), {}, {}, FALSE) IN
            /\ heap' = r.hp /\ slot' = r.slot /\ order' = r.order
            /\ coll' = [coll EXCEPT ![Head(xs)] = @ \ {e}]
            /\ status' = IF r.ok THEN status ELSE "aborted"
            /\ todo' = todo
    /\ UNCHANGED <<SceneVars, impl, spaceW, loc, wkind, created, alive, hooked>>
    /\ UNCHANGED FrameVars

\* ecs_delete, last part: after the OnRemove observers the row is deleted
ecs_delete ==
    /\ AtHead("delete", "none")
    /\ LET e == Head(todo).e
           r == TableMove(impl, heap, slot, coll, order, e, {"body", "shape"}, {}, TRUE) IN
        /\ heap' = r.hp /\ slot' = r.slot /\ order' = r.order
        /\ alive' = alive \ {e}
        /\ coll' = [coll EXCEPT ![e] = {}]
        /\ Done(r.ok)
    /\ UNCHANGED <<SceneVars, impl, spaceW, loc, wkind, created, hooked>>
    /\ UNCHANGED FrameVars

\* ------------------------------------------------------ world teardown
RECURSIVE AllRemoveEvents(_, _)
AllRemoveEvents(sl, ord) ==
    IF ord = <<>> THEN <<>> ELSE RemoveEvents(sl, Head(ord)) \o AllRemoveEvents(sl, Tail(ord))

FiniTables(ord) == [i \in 1..Len(ord) |-> Item("fini_table", "none", ord[i], NULL)]
InsertAt(s, i, x) == SubSeq(s, 1, i) \o <<x>> \o SubSeq(s, i + 1, Len(s))

\* ~world: ecs_fini emits OnRemove for every table while the store is intact,
\* then frees the tables (the singleton's among them, in table order)
AppTeardown ==
    /\ Quiet
    /\ \E i \in 0..Len(order) :
        todo' = AllRemoveEvents(slot, order)
                \o InsertAt(FiniTables(order), i, Item("fini_space", "none", 0, NULL))
                \o <<Item("fini_done", "none", 0, NULL)>>
    /\ UNCHANGED <<SceneVars, impl, status, heap, spaceW, slot, loc, wkind, hooked>>
    /\ UNCHANGED EcsVars
    /\ UNCHANGED FrameVars

\* [ok, hp, slot]: every component of the row is destructed
FiniRow(v, hp, sl, e) ==
    LET db == IF Has(sl, "body", e) THEN Dtor(v, "body", hp, sl["body"][e][1]) ELSE Ok(hp)
        ds == IF ~db.ok THEN db
              ELSE IF Has(sl, "shape", e) THEN Dtor(v, "shape", db.hp, sl["shape"][e][1])
              ELSE db IN
    [ok |-> ds.ok, hp |-> ds.hp, slot |-> [sl EXCEPT !["body"][e] = <<>>, !["shape"][e] = <<>>]]

fini_table ==
    /\ AtHead("fini_table", "none")
    /\ LET e == Head(todo).e
           r == FiniRow(impl, heap, slot, e) IN
        /\ heap' = r.hp /\ slot' = r.slot
        /\ alive' = alive \ {e}
        /\ order' = Without(order, e)
        /\ coll' = [coll EXCEPT ![e] = {}]
        /\ Done(r.ok)
    /\ UNCHANGED <<SceneVars, impl, spaceW, loc, wkind, created, hooked>>
    /\ UNCHANGED FrameVars

\* cpSpaceFree (cpSpaceDestroy) activates every body still listed in the
\* space before it frees its own storage: it reads a listed body that was
\* freed already, and then either crashes or goes through
FreedBodyListed(hp) ==
    \E h \in Handles : hp[h].kind = "body" /\ hp[h].inSpace /\ Freed(hp, h)
cpSpaceFreeOutcomes(hp) ==
    IF FreedBodyListed(hp) THEN {"returns", "crashes"} ELSE {"returns"}

\* ~Space / SpaceDeleter at the end of ~world
fini_space ==
    /\ AtHead("fini_space", "none")
    /\ \E outcome \in cpSpaceFreeOutcomes(heap) :
        IF outcome = "crashes" THEN Crash
        ELSE
            /\ LET d == Dtor(impl, "space", heap, spaceW[1]) IN
                /\ heap' = d.hp
                /\ Done(d.ok)
            /\ spaceW' = <<>>
            /\ UNCHANGED <<SceneVars, impl, slot, loc, wkind, hooked>>
            /\ UNCHANGED EcsVars
            /\ UNCHANGED FrameVars

fini_done ==
    /\ AtHead("fini_done", "none")
    /\ status' = "done"
    /\ todo' = <<>>
    /\ UNCHANGED <<SceneVars, impl, heap, spaceW, slot, loc, wkind, hooked>>
    /\ UNCHANGED EcsVars
    /\ UNCHANGED FrameVars
\* ------------------------------------------------------------ a frame
Cmd(op, e, t) == [op |-> op, e |-> e, t |-> t]

\* ecs.progress(dt): the world goes read-only, commands are deferred
ecs_progress(dt) ==
    /\ Quiet
    /\ pc' = "pre"
    /\ frameDt' = dt
    /\ steps' = 0
    /\ defq' = <<>>
    /\ UNCHANGED <<impl, status, heap, spaceW, slot, loc, wkind, hooked, todo, stepDt>>
    /\ UNCHANGED EcsVars
progress(dt) == ecs_progress(dt) /\ UNCHANGED SceneVars

\* it.delta_time(): the delta_time the frame was started with
delta_time_fixed(dt) == 1
delta_time(dt) == dt

\* cpSpaceStep(c.val, ...) is entered, unless the conversion c of the Space
\* failed its assertion; a null pointer makes cpSpaceStep read through it
StepEntered(c) ==
    /\ status' = IF ~c.ok THEN "aborted" ELSE IF c.val = NULL THEN "crashed" ELSE status
    /\ pc' = IF c.ok /\ c.val # NULL THEN "stepping" ELSE pc
    /\ steps' = IF c.ok /\ c.val # NULL THEN steps + 1 ELSE steps
    /\ stepDt' = IF c.ok /\ c.val # NULL THEN delta_time(frameDt) ELSE stepDt

\* step_space (PreUpdate): the Space is fetched with get_mut<Space>() (an
\* empty wrapper when the singleton has none) and
\* cpSpaceStep(*space, it.delta_time()) is entered
step_space_enter ==
    /\ status = "running"
    /\ pc = "pre"
    /\ StepEntered(Cast(impl, "space", IF spaceW = <<>> THEN DefaultCtor(impl, "space")
                                                          ELSE spaceW[1]))
    /\ UNCHANGED <<impl, heap, spaceW, slot, loc, wkind, hooked, todo, frameDt, defq>>
    /\ UNCHANGED EcsVars
\* the positions of the bodies are left out: any two shapes may come to touch
step_space == step_space_enter /\ UNCHANGED SceneVars

\* cpSpaceStep reads every body and shape listed in the space
step_space_crash ==
    /\ status = "running"
    /\ pc = "pre"
    /\ Dangling(heap)
    /\ Crash

\* the two sides of a contact that begins: a shape of type CT_Projectile and
\* another shape, on different bodies, both in the space
Contact(hp, sa, sb) ==
    /\ sa # sb
    /\ hp[sa].kind = "shape" /\ hp[sb].kind = "shape"
    /\ hp[sa].inSpace /\ hp[sb].inSpace
    /\ hp[sa].ctype = "proj"
    /\ hp[sa].sbody # hp[sb].sbody

\* what cpBodyGetUserData can return: the slot of a live body, anything of a freed one
UserDataRead(hp, b) == IF Freed(hp, b) THEN 0..created ELSE {cpBodyGetUserData(hp, b)}

\* the add<Collision> calls of the two beginFunc lambdas: projectile_collision
\* marks both sides, indestructable_projectile only the object struck
MarksBothAlways(hd, proj, other) == <<Cmd("add", proj, other), Cmd("add", other, proj)>>
MarksOtherOnly(hd, proj, other) == <<Cmd("add", other, proj)>>
Marks(hd, proj, other) ==
    IF hd = "projectile_collision"
    THEN <<Cmd("add", proj, other), Cmd("add", other, proj)>>
    ELSE <<Cmd("add", other, proj)>>

\* what the beginFunc lambda returns: true (the engine resolves the collision)
\* in projectile_collision, false (the collision is ignored) in
\* indestructable_projectile
ReturnsTrueAlways(hd) == TRUE
Returns(hd) == hd = "projectile_collision"

\* a beginFunc that takes the struck shape out of the space itself
begin_callback_detaches(sa, sb) ==
    /\ status = "running"
    /\ pc = "stepping"
    /\ Contact(heap, sa, sb)
    /\ heap' = [heap EXCEPT ![sb].inSpace = FALSE]
    /\ UNCHANGED <<impl, status, spaceW, slot, loc, wkind, hooked, todo, pc, frameDt, stepDt,
                   steps, defq>>
    /\ UNCHANGED EcsVars
\* beginFunc, called inside cpSpaceStep: both entities are resolved from the
\* bodies' user data and get their deferred add<Collision>; an id that is not
\* a live entity fails flecs' validity check
begin_callback(sa, sb) ==
    /\ status = "running"
    /\ pc = "stepping"
    /\ Contact(heap, sa, sb)
    /\ \E proj \in UserDataRead(heap, heap[sa].sbody), other \in UserDataRead(heap, heap[sb].sbody) :
        /\ \A i \in 1..Len(defq) : defq[i] # Marks(handler, proj, other)[1]
        /\ IF proj \in alive /\ other \in alive
           THEN /\ defq' = defq \o Marks(handler, proj, other)
                /\ status' = status
           ELSE /\ defq' = defq
                /\ status' = "aborted"
    /\ UNCHANGED <<impl, heap, spaceW, slot, loc, wkind, hooked, todo, pc, frameDt, stepDt, steps>>
    /\ UNCHANGED EcsVars
beginFuncImmediate(sa, sb) ==
    /\ status = "running"
    /\ pc = "stepping"
    /\ Contact(heap, sa, sb)
    /\ \E proj \in UserDataRead(heap, heap[sa].sbody) \cap alive,
          other \in UserDataRead(heap, heap[sb].sbody) \cap alive :
        /\ other \notin coll[proj]
        /\ coll' = [coll EXCEPT ![proj] = @ \cup {other}, ![other] = @ \cup {proj}]
    /\ UNCHANGED <<SceneVars, impl, status, heap, spaceW, slot, loc, wkind, hooked, todo, pc,
                   frameDt, stepDt, steps, defq, created, alive, order>>
beginFunc(sa, sb) == begin_callback(sa, sb) /\ UNCHANGED SceneVars

\* a step_space that steps the space a second time in the frame
step_space_again ==
    /\ status = "running"
    /\ pc = "stepping"
    /\ pc' = IF steps < 2 THEN "pre" ELSE "post"
    /\ UNCHANGED <<impl, status, heap, spaceW, slot, loc, wkind, hooked, todo,
                   frameDt, stepDt, steps, defq>>
    /\ UNCHANGED EcsVars
\* cpSpaceStep returns
step_space_leave ==
    /\ status = "running"
    /\ pc = "stepping"
    /\ pc' = "post"
    /\ UNCHANGED <<impl, status, heap, spaceW, slot, loc, wkind, hooked, todo,
                   frameDt, stepDt, steps, defq>>
    /\ UNCHANGED EcsVars
step_return == step_space_leave /\ UNCHANGED SceneVars

\* the system with<Collision>(Wildcard) (OnUpdate): e.destruct() for every
\* entity that carries a Collision pair; the call is deferred
MarkedNoWildcard(cl, ord) == <<>>
Marked(cl, ord) == SelectSeq(ord, LAMBDA e : cl[e] # {})
collision_system ==
    /\ status = "running"
    /\ pc = "post"
    /\ pc' = "merge"
    /\ defq' = defq \o [i \in 1..Len(Marked(coll, order)) |-> Cmd("delete", Marked(coll, order)[i], 0)]
    /\ UNCHANGED <<SceneVars, impl, status, heap, spaceW, slot, loc, wkind, hooked, todo,
                   frameDt, stepDt, steps>>
    /\ UNCHANGED EcsVars

Merging == status = "running" /\ pc = "merge" /\ todo = <<>> /\ defq # <<>>

\* end of the frame: the deferred commands run in the order they were queued
merge_add ==
    /\ Merging
    /\ Head(defq).op = "add"
    /\ LET e == Head(defq).e
           x == Head(defq).t
           r == TableMove(impl, heap, slot, coll, order, e, {}, {}, FALSE) IN
        IF e \in alive /\ x \in alive /\ x \notin coll[e]
        THEN /\ heap' = r.hp /\ slot' = r.slot /\ order' = r.order
             /\ coll' = [coll EXCEPT ![e] = @ \cup {x}]
             /\ status' = IF r.ok THEN status ELSE "aborted"
        ELSE UNCHANGED <<heap, slot, order, coll, status>>
    /\ defq' = Tail(defq)
    /\ UNCHANGED <<SceneVars, impl, spaceW, loc, wkind, created, alive, hooked, todo, pc, frameDt, stepDt, steps>>

merge_delete ==
    /\ Merging
    /\ Head(defq).op = "delete"
    /\ todo' = IF Head(defq).e \in alive THEN DeleteCalls(slot, Head(defq).e) ELSE <<>>
    /\ defq' = Tail(defq)
    /\ UNCHANGED <<SceneVars, impl, status, heap, spaceW, slot, loc, wkind, hooked, pc, frameDt, stepDt, steps>>
    /\ UNCHANGED EcsVars

frame_end ==
    /\ status = "running"
    /\ pc = "merge"
    /\ todo = <<>>
    /\ defq = <<>>
    /\ pc' = "idle"
    /\ UNCHANGED <<SceneVars, impl, status, heap, spaceW, slot, loc, wkind, hooked, todo,
                   frameDt, stepDt, steps, defq>>
    /\ UNCHANGED EcsVars

\* ------------------------------------------------------ specification
Next ==
    \/ AppNewEntity
    \/ \E e \in Entities : AppSetBody(e)
    \/ \E e \in Entities, t \in {"proj", "obj"} : AppSetShape(e, t)
    \/ \E e \in Entities : AppSetStaticShape(e, "obj")
    \/ \E e \in Entities : AppEmplaceBody(e)
    \/ \E e \in Entities, k \in {"body", "shape"} : AppRemove(k, e)
    \/ \E e \in Entities : AppDestruct(e)
    \/ AppTeardown
    \/ \E k \in {"body", "shape"} : ecs_get_mut(k)
    \/ \E k \in {"body", "shape"} : set_assign(k)
    \/ \E k \in {"body", "shape"} : destroy_temporary(k)
    \/ ecs_emplace("body")
    \/ body_on_set
    \/ body_on_remove
    \/ shape_on_set
    \/ shape_on_remove
    \/ shape_on_remove_crash
    \/ \E k \in {"body", "shape"} : ecs_remove_commit(k)
    \/ ecs_delete_cleanup
    \/ ecs_delete
    \/ fini_table
    \/ fini_space
    \/ fini_done
    \/ \E dt \in 1..MaxDt : progress(dt)
    \/ step_space
    \/ step_space_crash
    \/ \E sa \in Handles, sb \in Handles : beginFunc(sa, sb)
    \/ step_return
    \/ collision_system
    \/ merge_add
    \/ merge_delete
    \/ frame_end

Spec == Init /\ [][Next]_vars
SpecUniquePtr == InitUniquePtr /\ [][Next]_vars

\* ------------------------------------------- a world without a Space
\* ecs.import<chipmunk2d>(); ecs.remove<Space>(): the singleton is gone (its
\* destructor has released the cpSpace), the observers and step_space stay
NoSpaceInit ==
    /\ impl \in SysImpls
    /\ status = "running"
    /\ heap = Dtor(impl, "space", chipmunk2d(impl).hp, chipmunk2d(impl).spaceW[1]).hp
    /\ spaceW = <<>>
    /\ slot = NoSlots
    /\ loc = [a |-> <<>>, b |-> <<>>]
    /\ wkind = "none"
    /\ created = 0
    /\ alive = {}
    /\ order = <<>>
    /\ coll = [e \in 1..MaxEntities |-> {}]
    /\ hooked = [k \in {"body", "shape"} |-> [e \in 1..MaxEntities |-> 0]]
    /\ todo = <<>>
    /\ pc = "idle"
    /\ frameDt = 0
    /\ stepDt = 0
    /\ steps = 0
    /\ defq = <<>>
    /\ handler = "projectile_collision"
    /\ frame = 0
    /\ pos = [h \in 1..MaxHandles |-> 0]
    /\ vel = [h \in 1..MaxHandles |-> 0]
    /\ arbs = {}

NoSpaceNext ==
    \/ AppNewEntity
    \/ \E e \in Entities : AppSetBody(e)
    \/ \E e \in Entities, t \in {"proj", "obj"} : AppSetShape(e, t)
    \/ \E e \in Entities : AppEmplaceBody(e)
    \/ \E e \in Entities, k \in {"body", "shape"} : AppRemove(k, e)
    \/ \E e \in Entities : AppDestruct(e)
    \/ \E k \in {"body", "shape"} : ecs_get_mut(k)
    \/ \E k \in {"body", "shape"} : set_assign(k)
    \/ \E k \in {"body", "shape"} : destroy_temporary(k)
    \/ ecs_emplace("body")
    \/ body_on_set
    \/ body_on_remove
    \/ shape_on_set
    \/ shape_on_remove
    \/ \E k \in {"body", "shape"} : ecs_remove_commit(k)
    \/ ecs_delete_cleanup
    \/ ecs_delete
    \/ \E dt \in 1..MaxDt : progress(dt)
    \/ step_space

NoSpaceSpec == NoSpaceInit /\ [][NoSpaceNext]_vars

\* ------------------------------------------------ the two test scenes
\* TEST(projectile_collision) and TEST(indestructable_projectile) from the
\* end of their set-up on: an arrow (entity 1, a circle of radius 1 of type
\* CT_Projectile) moving right from x = 0, and on its way, at rest, one apple
\* (entity 2, a box of type CT_Object) in projectile_collision, a row of five
\* apples (entities 2..6), 5 units apart, in indestructable_projectile;
\* everything lies on the line y = 0.
\* One frame is 1/60 s. Positions are counted in 1/PosScale units and
\* velocities in 1/VelScale units per second, so that one frame adds vel to
\* pos and halving a velocity stays exact.
PosScale == 120
VelScale == 2
Frames == 60
ArrowBody == 2
ArrowShape == 3
AppleBody == 4
AppleShape == 5

\* for (int i = 0; i < 5; i++): the apples of the row
AppleRow == 5
Apples(hd) == IF hd = "projectile_collision" THEN {Apple} ELSE Apple..(Apple + AppleRow - 1)
SceneEntities(hd) == {Arrow} \cup Apples(hd)
\* the pointers come in allocation order: the space, then body and shape of
\* each entity in turn
BodyOf(e) == 2 * e
ShapeOf(e) == 2 * e + 1
SceneHandles(hd) == {SpaceHandle} \cup {BodyOf(e) : e \in SceneEntities(hd)}
                                  \cup {ShapeOf(e) : e \in SceneEntities(hd)}

\* cpBodySetVelocity(body, {10, 0}) / {25, 0}
ArrowVelocity(hd) == IF hd = "projectile_collision" THEN 10 * VelScale ELSE 25 * VelScale
\* cpBodySetPosition(body, {10, 0}) / {5.0 + (i * 5), 0}, i = 0..4
ApplePosition(hd, e) ==
    IF hd = "projectile_collision" THEN 10 * PosScale
    ELSE (5 + (e - Apple) * 5) * PosScale
\* how far a shape reaches from its body along x: cpCircleShapeNew(body, 1, ..):
\* 1; cpBoxShapeNew(body, 5, 5, 3): 5/2 + 3; cpBoxShapeNew(body, 1, 1, 0): 1/2
ShapeExtent(hd, t) ==
    IF t = "proj" THEN PosScale
    ELSE IF hd = "projectile_collision" THEN (5 * PosScale) \div 2 + 3 * PosScale
    ELSE PosScale \div 2

\* arrow.set<Body>(body); arrow.set<Shape>(shape): the observers have run
WithBody(v, hp, e, h) ==
    BodyOnSet(v, cpNew(hp, h, "body", NULL, "none"), e, h, SpaceHandle, FALSE).hp
WithShape(v, hp, e, h, b, t) ==
    ShapeOnSet(v, cpNew(hp, h, "shape", b, t), e, h, SpaceHandle, FALSE).hp
SceneEntity(v, hp, e) ==
    WithShape(v, WithBody(v, hp, e, BodyOf(e)), e, ShapeOf(e), BodyOf(e),
              IF e = Arrow THEN "proj" ELSE "obj")
\* the entities 1..n set up one after the other
RECURSIVE SceneSetUp(_, _, _)
SceneSetUp(v, hp, n) == IF n = 0 THEN hp ELSE SceneEntity(v, SceneSetUp(v, hp, n - 1), n)
SceneHeap(v, hd) ==
    SceneSetUp(v, [h \in SceneHandles(hd) |->
                      IF h = SpaceHandle THEN chipmunk2d(v).hp[SpaceHandle] ELSE NoObj],
               Cardinality(SceneEntities(hd)))

\* the scene as set up, the arrow shot (moving) or left at rest
SceneStart(moving) ==
    /\ impl \in SysImpls
    /\ handler \in {"projectile_collision", "indestructable_projectile"}
    /\ status = "running"
    /\ heap = SceneHeap(impl, handler)
    /\ spaceW = chipmunk2d(impl).spaceW
    /\ slot = [body |-> [e \in SceneEntities(handler) |-> <<BodyOf(e)>>],
               shape |-> [e \in SceneEntities(handler) |-> <<ShapeOf(e)>>]]
    /\ loc = [a |-> <<>>, b |-> <<>>]
    /\ wkind = "none"
    /\ created = Cardinality(SceneEntities(handler))
    /\ alive = SceneEntities(handler)
    /\ order = [i \in 1..Cardinality(SceneEntities(handler)) |-> i]
    /\ coll = [e \in SceneEntities(handler) |-> {}]
    /\ hooked = [k \in {"body", "shape"} |-> [e \in SceneEntities(handler) |-> 1]]
    /\ todo = <<>>
    /\ pc = "idle"
    /\ frameDt = 0
    /\ stepDt = 0
    /\ steps = 0
    /\ defq = <<>>
    /\ frame = 0
    /\ pos = [h \in SceneHandles(handler) |->
                 IF \E e \in Apples(handler) : h = BodyOf(e)
                 THEN ApplePosition(handler, h \div 2) ELSE 0]
    /\ vel = [h \in SceneHandles(handler) |->
                 IF h = ArrowBody /\ moving THEN ArrowVelocity(handler) ELSE 0]
    /\ arbs = {}

SceneInit == SceneStart(TRUE)

\* for (int i = 0; i < 60; i++) { ecs.progress(1/60.0); if (!arrow.is_valid()
\* || !apple.is_valid()) break; } (indestructable_projectile: only the arrow)
LoopContinues(hd) ==
    frame = 0 \/ (Arrow \in alive /\ (hd = "projectile_collision" => Apple \in alive))
test_loop ==
    /\ frame < Frames
    /\ LoopContinues(handler)
    /\ ecs_progress(1)
    /\ frame' = frame + 1
    /\ UNCHANGED <<handler, pos, vel, arbs>>

\* distance left between two shapes (negative: they overlap)
Gap(hd, hp, ps, sa, sb) ==
    (IF ps[hp[sa].sbody] < ps[hp[sb].sbody]
     THEN ps[hp[sb].sbody] - ps[hp[sa].sbody] ELSE ps[hp[sa].sbody] - ps[hp[sb].sbody])
        - ShapeExtent(hd, hp[sa].ctype) - ShapeExtent(hd, hp[sb].ctype)
Arb(sa, sb, st) == [a |-> sa, b |-> sb, state |-> st]
\* cpBodyUpdatePosition: p += v * dt, for the bodies of the space
Moved1(hp, ps, vl, dt) ==
    [b \in Handles |-> IF hp[b].kind = "body" /\ hp[b].inSpace THEN ps[b] + vl[b] * dt ELSE ps[b]]
\* the arbiters that stay: both shapes still in the space and still in contact
Kept(hd, hp, ps, ab) ==
    {x \in ab : hp[x.a].inSpace /\ hp[x.b].inSpace /\ Gap(hd, hp, ps, x.a, x.b) <= 0}
\* new arbiters for the shape pairs the wildcard handler of CT_Projectile sees
\* begin to touch: the pairs that overlap (sure) or, ~sure, those at distance
\* exactly 0 (which side of 0 the floating-point sum falls on is left open)
Begins(hd, hp, ps, ab, sure) ==
    {Arb(q[1], q[2], "first") : q \in
        {q \in Handles \X Handles :
            /\ Contact(hp, q[1], q[2])
            /\ \A x \in ab : x.a # q[1] \/ x.b # q[2]
            /\ IF sure THEN Gap(hd, hp, ps, q[1], q[2]) < 0
                       ELSE Gap(hd, hp, ps, q[1], q[2]) = 0}}

\* cpSpaceStep up to the collision callbacks: positions are integrated, then
\* the colliding pairs are found
scene_step_space ==
    /\ step_space_enter
    /\ UNCHANGED <<handler, frame, vel>>
    /\ IF pc' = "stepping"
       THEN /\ pos' = Moved1(heap, pos, vel, stepDt')
            /\ \E touch \in SUBSET Begins(handler, heap, pos', arbs, FALSE) :
                 arbs' = Kept(handler, heap, pos', arbs)
                            \cup Begins(handler, heap, pos', arbs, TRUE) \cup touch
       ELSE UNCHANGED <<pos, arbs>>

\* beginFunc is called once for an arbiter in its first step; returning false
\* makes the engine ignore the collision for as long as the shapes touch
scene_beginFunc(sa, sb) ==
    /\ Arb(sa, sb, "first") \in arbs
    /\ begin_callback(sa, sb)
    /\ arbs' = (arbs \ {Arb(sa, sb, "first")})
                  \cup {Arb(sa, sb, IF Returns(handler) THEN "normal" ELSE "ignore")}
    /\ UNCHANGED <<handler, frame, pos, vel>>

\* the solver, for two bodies of mass 1 that cannot rotate and shapes of
\* elasticity 0: bodies that approach each other leave with their common
\* velocity
Solved(ps, vl, a, b) ==
    IF (ps[a] < ps[b] /\ vl[a] > vl[b]) \/ (ps[a] > ps[b] /\ vl[a] < vl[b])
    THEN [h \in Handles |-> IF h \in {a, b} THEN (vl[a] + vl[b]) \div 2 ELSE vl[h]]
    ELSE vl
Solve(hp, ps, vl, ab) ==
    IF \E x \in ab : x.state = "normal"
    THEN Solved(ps, vl, hp[(CHOOSE x \in ab : x.state = "normal").a].sbody,
                        hp[(CHOOSE x \in ab : x.state = "normal").b].sbody)
    ELSE vl

\* cpSpaceSetGravity(space, {0, 0}): the gravity of the space, as the velocity
\* (in 1/VelScale units per second) it adds in one frame
GravityPulls(sp) == 1
Gravity(sp) == 0
\* cpBodyUpdateVelocity: v += gravity * dt, for the bodies of the space
\* (damping is 1, no force is applied)
Accelerated(hp, vl, g, dt) ==
    [b \in Handles |-> IF hp[b].kind = "body" /\ hp[b].inSpace THEN vl[b] + g * dt ELSE vl[b]]

\* the rest of cpSpaceStep: every new pair has had its callback, velocities
\* are integrated, the solver runs on the arbiters that are not ignored
scene_step_return ==
    /\ \A x \in arbs : x.state # "first"
    /\ step_space_leave
    /\ vel' = Solve(heap, pos, Accelerated(heap, vel, Gravity(spaceW[1]), stepDt), arbs)
    /\ UNCHANGED <<handler, frame, pos, arbs>>

SceneNext ==
    \/ test_loop
    \/ scene_step_space
    \/ \E sa \in Handles, sb \in Handles : scene_beginFunc(sa, sb)
    \/ scene_step_return
    \/ collision_system
    \/ merge_add
    \/ merge_delete
    \/ body_on_remove
    \/ shape_on_remove
    \/ ecs_delete_cleanup
    \/ ecs_delete
    \/ frame_end

SceneSpec == SceneInit /\ [][SceneNext]_vars
\* the test runs on: nothing but the test drives the world
SceneFairSpec == SceneSpec /\ WF_vars(SceneNext)

\* the same scenes with the arrow left at rest: nothing moves, nothing touches
RestInit == SceneStart(FALSE)
RestNext ==
    \/ test_loop
    \/ scene_step_space
    \/ scene_step_return
    \/ collision_system
    \/ frame_end
RestSpec == RestInit /\ [][RestNext]_vars

\* ------------------------------- body_on_set, statement by statement
\* the two calls of the body_on_set lambda, in the order they are written
BodyOnSetReversed == <<"cpSpaceAddBody", "cpBodySetUserData">>
BodyOnSetOrder == <<"cpBodySetUserData", "cpSpaceAddBody">>

\* [ok, hp]: one of the two calls; each converts the wrappers it is given
BodyOnSetStatement(v, hp, e, b, sp, locked, st) ==
    IF ~Cast(v, "body", b).ok THEN Fail(hp)
    ELSE IF st = "cpBodySetUserData" THEN Ok(cpBodySetUserData(hp, Cast(v, "body", b).val, e))
    ELSE IF ~Cast(v, "space", sp).ok THEN Fail(hp)
    ELSE cpSpaceAddBody(hp, Cast(v, "space", sp).val, Cast(v, "body", b).val, locked)

\* the i-th call of body_on_set for the entity of the pending OnSet event
\* (the event's h counts the calls made so far)
body_on_set_statement(i) ==
    /\ AtHead("on_set", "body")
    /\ ObserverMatches
    /\ Head(todo).h = i - 1
    /\ LET e == Head(todo).e
           r == BodyOnSetStatement(impl, heap, e, slot["body"][e][1], spaceW[1], Locked,
                                   BodyOnSetOrder[i]) IN
        /\ heap' = r.hp
        /\ status' = IF r.ok THEN status ELSE "aborted"
        /\ todo' = IF ~r.ok THEN todo
                   ELSE IF i < Len(BodyOnSetOrder) THEN <<Item("on_set", "body", e, i)>> \o Tail(todo)
                   ELSE Tail(todo)
        /\ hooked' = IF i = Len(BodyOnSetOrder) THEN [hooked EXCEPT !["body"][e] = Bump(@)]
                     ELSE hooked
    /\ UNCHANGED ObserverRest
    /\ UNCHANGED EcsVars
    /\ UNCHANGED FrameVars

\* e.modified<T>(): flecs emits OnSet for the component e already has
AppModified(k, e) ==
    /\ Quiet
    /\ e \in alive
    /\ Has(slot, k, e)
    /\ todo' = <<Item("on_set", k, e, NULL)>>
    /\ UNCHANGED <<SceneVars, impl, status, heap, spaceW, slot, loc, wkind, hooked>>
    /\ UNCHANGED EcsVars
    /\ UNCHANGED FrameVars

HookInit == \E v \in SysImpls : InitWorld(v)
HookNext ==
    \/ AppNewEntity
    \/ \E e \in Entities : AppSetBody(e)
    \/ \E e \in Entities : AppEmplaceBody(e)
    \/ \E e \in Entities : AppModified("body", e)
    \/ \E e \in Entities : AppRemove("body", e)
    \/ \E e \in Entities : AppDestruct(e)
    \/ ecs_get_mut("body")
    \/ set_assign("body")
    \/ destroy_temporary("body")
    \/ ecs_emplace("body")
    \/ \E i \in 1..Len(BodyOnSetOrder) : body_on_set_statement(i)
    \/ body_on_remove
    \/ ecs_remove_commit("body")
    \/ ecs_delete_cleanup
    \/ ecs_delete
HookSpec == HookInit /\ [][HookNext]_vars

\* ------------------------------------- the wrappers used on their own
\* Two wrapper objects of one kind, a and b, in a scope of their own, next to a
\* raw cpSpace (SpaceHandle): a is the destination and b the source of the
\* moves. loc[w] = <<>> means w is not constructed (or already destroyed).
WrapInit ==
    /\ impl \in Variants
    /\ wkind \in Kinds
    /\ status = "running"
    /\ heap = cpNew(EmptyHeap, SpaceHandle, "space", NULL, "none")
    /\ spaceW = <<>>
    /\ slot = NoSlots
    /\ loc = [a |-> <<>>, b |-> <<>>]
    /\ created = 0
    /\ alive = {}
    /\ order = <<>>
    /\ coll = [e \in 1..MaxEntities |-> {}]
    /\ hooked = [k \in {"body", "shape"} |-> [e \in 1..MaxEntities |-> 0]]
    /\ todo = <<>>
    /\ pc = "idle"
    /\ frameDt = 0
    /\ stepDt = 0
    /\ steps = 0
    /\ defq = <<>>
    /\ handler = "projectile_collision"
    /\ frame = 0
    /\ pos = [h \in 1..MaxHandles |-> 0]
    /\ vel = [h \in 1..MaxHandles |-> 0]
    /\ arbs = {}

WrapRest == <<SceneVars, impl, spaceW, slot, wkind, created, alive, order, coll, hooked, todo,
              frameDt, stepDt, steps, defq>>
Running(ok) == IF ok THEN "running" ELSE "aborted"

\* T w{cp*New(...)} (the first variant's Space has no such constructor)
WrapPtr(w) ==
    /\ status = "running"
    /\ ~DefaultAllocates(impl, wkind)
    /\ loc[w] = <<>>
    /\ \E h \in Fresh(heap) :
        /\ heap' = cpNew(heap, h, wkind, NULL, "none")
        /\ loc' = [loc EXCEPT ![w] = <<h>>]
    /\ pc' = "wrap"
    /\ UNCHANGED status
    /\ UNCHANGED WrapRest

\* T w{cp*New(...)} when the allocator has returned a null pointer
WrapNull(w) ==
    /\ status = "running"
    /\ loc[w] = <<>>
    /\ loc' = [loc EXCEPT ![w] = <<NULL>>]
    /\ pc' = "wrap_null"
    /\ UNCHANGED <<status, heap>>
    /\ UNCHANGED WrapRest

\* w used where a cp* pointer is expected: the conversion operator
\* (unique_ptr: get())
WrapCast(w) ==
    /\ status = "running"
    /\ loc[w] # <<>>
    /\ status' = Running(Cast(impl, wkind, loc[w][1]).ok)
    /\ pc' = IF w = "a" THEN "cast_a" ELSE "cast_b"
    /\ UNCHANGED <<heap, loc>>
    /\ UNCHANGED WrapRest

\* T w; the first variant's Body and Shape have no default constructor, its
\* Space() allocates the space itself
WrapDefault(w) ==
    /\ status = "running"
    /\ impl = "first" => wkind = "space"
    /\ loc[w] = <<>>
    /\ IF DefaultAllocates(impl, wkind)
       THEN \E h \in Fresh(heap) :
              /\ heap' = cpNew(heap, h, wkind, NULL, "none")
              /\ loc' = [loc EXCEPT ![w] = <<h>>]
       ELSE /\ heap' = heap
            /\ loc' = [loc EXCEPT ![w] = <<DefaultCtor(impl, wkind)>>]
    /\ pc' = "default"
    /\ UNCHANGED status
    /\ UNCHANGED WrapRest

WrapMoved(m, op) ==
    /\ heap' = m.hp
    /\ loc' = [a |-> <<m.dst>>, b |-> <<m.src>>]
    /\ status' = Running(m.ok)
    /\ pc' = op

\* T a{std::move(b)}
WrapMoveCtor ==
    /\ status = "running"
    /\ loc.a = <<>> /\ loc.b # <<>>
    /\ WrapMoved(MoveCtor(impl, wkind, heap, loc.b[1]), "move_ctor")
    /\ UNCHANGED WrapRest

\* a = std::move(b)
WrapMoveAssign ==
    /\ status = "running"
    /\ loc.a # <<>> /\ loc.b # <<>>
    /\ WrapMoved(MoveAssign(impl, wkind, heap, loc.a[1], loc.b[1], FALSE), "move_assign")
    /\ UNCHANGED WrapRest

WrapSelfMoved(m) ==
    /\ heap' = m.hp
    /\ loc' = [loc EXCEPT !.a = <<m.dst>>]
    /\ status' = Running(m.ok)

\* a = std::move(a)
WrapSelfAssign ==
    /\ status = "running"
    /\ loc.a # <<>>
    /\ WrapSelfMoved(MoveAssign(impl, wkind, heap, loc.a[1], loc.a[1], TRUE))
    /\ pc' = "self_assign"
    /\ UNCHANGED WrapRest

WrapReleased(d) ==
    /\ heap' = d.hp
    /\ status' = Running(d.ok)

\* w goes out of scope
WrapDtor(w) ==
    /\ status = "running"
    /\ loc[w] # <<>>
    /\ WrapReleased(Dtor(impl, wkind, heap, loc[w][1]))
    /\ loc' = [loc EXCEPT ![w] = <<>>]
    /\ pc' = IF w = "a" THEN "dtor_a" ELSE "dtor_b"
    /\ UNCHANGED WrapRest

\* cpSpaceAddBody(space, w) / cpSpaceAddShape(space, w), the shape being
\* attached to the space's static body
WrapSpaceAdd(w) ==
    /\ status = "running"
    /\ wkind # "space"
    /\ loc[w] # <<>> /\ loc[w] # <<NULL>>
    /\ ~InSpace(heap, loc[w][1])
    /\ WrapReleased(cpSpaceAdd(heap, SpaceHandle, loc[w][1], FALSE))
    /\ pc' = "add"
    /\ UNCHANGED loc
    /\ UNCHANGED WrapRest

\* cpSpaceRemoveBody(space, w) / cpSpaceRemoveShape(space, w)
WrapSpaceRemove(w) ==
    /\ status = "running"
    /\ wkind # "space"
    /\ loc[w] # <<>> /\ loc[w] # <<NULL>>
    /\ InSpace(heap, loc[w][1])
    /\ WrapReleased(cpSpaceRemove(heap, SpaceHandle, loc[w][1], FALSE))
    /\ pc' = "remove"
    /\ UNCHANGED loc
    /\ UNCHANGED WrapRest

WrapNext ==
    \/ \E w \in {"a", "b"} : WrapPtr(w)
    \/ \E w \in {"a", "b"} : WrapNull(w)
    \/ \E w \in {"a", "b"} : WrapCast(w)
    \/ \E w \in {"a", "b"} : WrapDefault(w)
    \/ WrapMoveCtor
    \/ WrapMoveAssign
    \/ WrapSelfAssign
    \/ \E w \in {"a", "b"} : WrapDtor(w)
    \/ \E w \in {"a", "b"} : WrapSpaceAdd(w)
    \/ \E w \in {"a", "b"} : WrapSpaceRemove(w)

WrapSpec == WrapInit /\ [][WrapNext]_vars

\* ============================================================ properties
ObsKinds == {"body", "shape"}
\* e has a k component that wraps a handle
Held(k, e) == Has(slot, k, e) /\ slot[k][e] # <<NULL>>
Objects == {h \in Handles : heap[h].kind \in ObsKinds}

\* C1: over every sequence of attach and detach operations that ends with the
\* teardown of the world, every body / shape handle given to a wrapper is
\* released exactly once (never twice, and once when the world is gone), and no
\* handle is released while it is a member of the Space.
C1_ReleasedOnceNeverInSpace ==
    \A h \in Objects :
        /\ heap[h].frees <= 1
        /\ ~(Freed(heap, h) /\ InSpace(heap, h))
        /\ status = "done" => heap[h].frees = 1

\* C2: whenever a Body or Shape component stops being present on an entity
\* (or its slot is given another handle), the OnRemove observer has run
\* before that step and the handle is no longer in the Space; and every
\* release is of a handle that is not in the Space.
C2_DetachBeforeRelease ==
    [][/\ \A k \in ObsKinds, e \in Entities :
            (Held(k, e) /\ slot'[k][e] # slot[k][e])
                => (~InSpace(heap, slot[k][e][1]) /\ hooked[k][e] = 0)
       /\ \A h \in Handles :
            heap'[h].frees > heap[h].frees => ~InSpace(heap, h)]_vars
C2_Witness ==
    /\ status = "running"
    /\ \E k \in ObsKinds, e \in alive, h \in Handles :
        /\ ~Has(slot, k, e) /\ hooked[k][e] = 0
        /\ heap[h].kind = k /\ Freed(heap, h) /\ heap[h].frees = 1 /\ ~InSpace(heap, h)

\* C3: every body that is in the Space is the Body component of a live entity
\* and its user data is the id of that entity.
C3_UserDataIsOwner ==
    \A h \in Handles : (heap[h].kind = "body" /\ InSpace(heap, h)) =>
        \E e \in alive : slot["body"][e] = <<h>> /\ cpBodyGetUserData(heap, h) = e
C3_Witness ==
    /\ pc = "stepping"
    /\ \E h \in Handles : heap[h].kind = "body" /\ InSpace(heap, h)
                            /\ cpBodyGetUserData(heap, h) = MaxEntities

\* C4: a move construction, and a move assignment into an empty wrapper,
\* leave the destination with the handle the source held and the source
\* empty, call no release, and do not fail; destroying an empty wrapper
\* releases nothing.
C4_MoveTransfersOwnership ==
    [][/\ (pc' = "move_ctor" \/ (pc' = "move_assign" /\ loc.a = <<NULL>>))
            => (loc'.a = loc.b /\ loc'.b = <<NULL>> /\ heap' = heap /\ status' = "running")
       /\ (pc' = "dtor_b" /\ loc.b = <<NULL>>)
            => (heap' = heap /\ status' = "running")]_vars
\* the first variant constructs every wrapper around a handle: with one handle
\* allocated, a holding it and b destroyed, b gave it to a and released nothing
C4_Witness ==
    /\ impl = "first" /\ status = "running"
    /\ pc = "dtor_b" /\ loc.b = <<>>
    /\ loc.a # <<>> /\ loc.a # <<NULL>>
    /\ \A h \in Handles \ {SpaceHandle} :
        IF <<h>> = loc.a THEN heap[h].st = "live" /\ heap[h].frees = 0
        ELSE heap[h].kind = "none"

\* C5: a move assignment into a wrapper that holds a live handle either
\* fails an assertion or releases that handle; the handle is never dropped
\* unreleased.
C5_OldHandleReleasedOrAssert ==
    [][(pc' = "move_assign" /\ loc.a # <<NULL>>)
            => (status' = "aborted" \/ Freed(heap', loc.a[1]))]_vars

\* C6: in the simple-struct and the unique_ptr implementation, the
\* destruction of a Body or Shape wrapper whose handle is in the Space fails
\* an assertion and does not release the handle.
C6_DtorInSpaceAsserts ==
    [][\A w \in {"a", "b"} :
            (/\ pc' = (IF w = "a" THEN "dtor_a" ELSE "dtor_b")
             /\ impl \in SysImpls /\ wkind # "space"
             /\ loc[w] # <<>> /\ loc[w] # <<NULL>> /\ InSpace(heap, loc[w][1]))
            => (status' = "aborted" /\ ~Freed(heap', loc[w][1]))]_vars

\* C7: per entity and component the OnSet and OnRemove observers run in
\* strict alternation, OnSet first: OnSet runs only when the last observer
\* run for the component was not an OnSet, OnRemove only after an OnSet,
\* and between operations the component is present exactly when its last
\* observer run was OnSet.
C7_HooksAlternate ==
    /\ [](\A k \in ObsKinds, e \in Entities :
            /\ hooked[k][e] \in {0, 1}
            /\ Quiet => (hooked[k][e] = 1 <=> Has(slot, k, e)))
    /\ [][/\ (body_on_set /\ ObserverMatches) => hooked["body"][Head(todo).e] = 0
          /\ (body_on_remove /\ ObserverMatches) => hooked["body"][Head(todo).e] = 1
          /\ (shape_on_set /\ ObserverMatches) => hooked["shape"][Head(todo).e] = 0
          /\ (shape_on_remove /\ ObserverMatches) => hooked["shape"][Head(todo).e] = 1]_vars
\* a second Body on an entity whose first Body was attached, detached and released
C7_Witness ==
    /\ Quiet
    /\ \E e \in alive, h1 \in Handles, h2 \in Handles :
        /\ h1 # h2
        /\ Freed(heap, h1) /\ heap[h1].kind = "body" /\ cpBodyGetUserData(heap, h1) = e
        /\ slot["body"][e] = <<h2>> /\ hooked["body"][e] = 1

\* C8: between operations a body / shape handle is in the Space exactly when
\* it is held by a Body / Shape component of a live entity.
C8_InSpaceIffHeld ==
    Quiet => \A h \in Objects :
        InSpace(heap, h) <=> \E e \in alive : slot[heap[h].kind][e] = <<h>>
C8_Witness ==
    /\ Quiet
    /\ \E h \in Objects : InSpace(heap, h) /\ heap[h].kind = "shape"
    /\ \E h \in Objects : Freed(heap, h) /\ ~InSpace(heap, h)

\* C9: in a frame the Space is not stepped before step_space and exactly once
\* from then on, with the delta_time given to progress; when the step is
\* entered no store call is pending and every component present has had its
\* OnSet observer run; the removal system runs only after that step.
C9_SteppedOncePerFrame ==
    /\ pc = "pre" => steps = 0
    /\ pc \in {"stepping", "post", "merge"} => (steps = 1 /\ stepDt = frameDt)
    /\ pc \in {"pre", "stepping"} =>
        (todo = <<>> /\ \A k \in ObsKinds, e \in alive : Has(slot, k, e) => hooked[k][e] = 1)
C9_Witness ==
    /\ pc = "merge" /\ steps = 1 /\ stepDt = MaxDt /\ status = "running"
    /\ \E e \in alive : Held("body", e) /\ Held("shape", e)

\* the collision handler has just queued a Collision mark
CallbackQueued == Len(defq') > Len(defq) /\ defq'[Len(defq')].op = "add"
\* the entities of the mark just queued had their Body and Shape OnSet
\* observers run and not their OnRemove observers, are alive, and their
\* bodies are in the Space
CallbackForAttached ==
    \A x \in {defq'[Len(defq')].e, defq'[Len(defq')].t} :
        /\ x \in alive
        /\ hooked["body"][x] = 1 /\ hooked["shape"][x] = 1
        /\ InSpace(heap, slot["body"][x][1])

\* C10 (as claimed): the collision handler is called only while the frame's
\* one cpSpaceStep is executing, never before the OnSet observers of a
\* participating entity have run and never for a body whose entity's
\* OnRemove observer has run.
C10_CallbacksOnlyForAttached ==
    [][CallbackQueued => (pc = "stepping" /\ steps = 1 /\ CallbackForAttached)]_vars

\* C10 (amended): the collision handler is called only while the frame's one
\* cpSpaceStep is executing; as long as no shape in the Space refers to a
\* released body, it is called only for entities that are alive, whose Body
\* and Shape have had their OnSet observer run and not their OnRemove
\* observer, and whose body is in the Space.
C10_CallbacksInsideStep ==
    [][CallbackQueued =>
        /\ pc = "stepping" /\ steps = 1
        /\ ~Dangling(heap) => CallbackForAttached]_vars
C10_Witness ==
    /\ pc = "stepping" /\ status = "running" /\ ~Dangling(heap)
    /\ defq # <<>> /\ defq[1].op = "add"

\* C11: a collision callback whose body's user data is not the identity of a
\* live entity (here the space's static body, whose user data was never
\* written; no object of the space is dangling) does not stop the program and
\* queues no Collision mark on or towards an entity that is not alive.
C11_NonLiveIdentitySkipped ==
    [][(pc = "stepping" /\ pc' = "stepping" /\ ~Dangling(heap)) =>
        /\ status' = "running"
        /\ \A i \in 1..Len(defq') : defq'[i].op = "add" =>
              (defq'[i].e \in alive /\ defq'[i].t \in alive)]_vars

\* ------------------------------------------------ the scenes' outcome
\* e is gone: not alive, its components dropped, its body and shape out of
\* the space and released once
Destroyed(e, b, sh) ==
    /\ e \notin alive
    /\ slot["body"][e] = <<>> /\ slot["shape"][e] = <<>>
    /\ \A h \in {b, sh} : Freed(heap, h) /\ ~heap[h].inSpace /\ heap[h].frees = 1
\* the test's loop has run to its end
LoopOver == Quiet /\ (frame = Frames \/ ~LoopContinues(handler))
\* the step in which beginFunc is called for the pair sa, sb
CallbackStep(sa, sb) == Arb(sa, sb, "first") \in arbs /\ Arb(sa, sb, "first") \notin arbs'

\* C12 (as claimed): every contact that begins between the projectile's body A
\* and another body B queues a Collision for the pair in both directions.
C12_BothDirections ==
    [][\A sa \in Handles, sb \in Handles : CallbackStep(sa, sb) =>
        defq' = defq \o <<Cmd("add", cpBodyGetUserData(heap, heap[sa].sbody),
                                      cpBodyGetUserData(heap, heap[sb].sbody)),
                          Cmd("add", cpBodyGetUserData(heap, heap[sb].sbody),
                                      cpBodyGetUserData(heap, heap[sa].sbody))>>]_vars

\* C12 (amended): for a contact that begins between the projectile's body A
\* and another body B the handler is called once while the contact lasts and
\* resolves both bodies to their entities; projectile_collision's handler
\* queues a Collision in both directions, indestructable_projectile's only
\* the one on entity(B) targeting entity(A). Between frames the Collision
\* marks are as queued: both ways, or never on the projectile.
C12_CollisionPerHandler ==
    /\ [][
           /\ \A sa \in Handles, sb \in Handles : CallbackStep(sa, sb) =>
              /\ status' = "running"
              /\ cpBodyGetUserData(heap, heap[sa].sbody) = Arrow
              /\ cpBodyGetUserData(heap, heap[sb].sbody) \in Apples(handler)
              /\ slot["shape"][cpBodyGetUserData(heap, heap[sb].sbody)] = <<sb>>
              /\ defq' = defq \o
                    (IF handler = "projectile_collision"
                     THEN <<Cmd("add", Arrow, cpBodyGetUserData(heap, heap[sb].sbody)),
                            Cmd("add", cpBodyGetUserData(heap, heap[sb].sbody), Arrow)>>
                     ELSE <<Cmd("add", cpBodyGetUserData(heap, heap[sb].sbody), Arrow)>>)
           /\ \A x \in arbs : x.state # "first" => Arb(x.a, x.b, "first") \notin arbs'
           /\ (Len(defq') > Len(defq) /\ pc = "stepping") =>
                \E sa \in Handles, sb \in Handles : CallbackStep(sa, sb)
          ]_vars
    /\ [](pc = "idle" =>
            /\ (handler = "projectile_collision" => (Apple \in coll[Arrow] <=> Arrow \in coll[Apple]))
            /\ (handler = "indestructable_projectile" => coll[Arrow] = {}))
C12_Witness ==
    /\ pc = "idle" /\ status = "running" /\ handler = "projectile_collision"
    /\ coll[Arrow] = {Apple} /\ coll[Apple] = {Arrow}

\* C13: with the handler that returns false (indestructable_projectile) the
\* step changes no velocity: the arrow keeps its velocity of exactly 25 all
\* along and stays a valid entity with its body, and when the 60 frames are
\* over each of the five apples it passed through, at x = 5, 10, 15, 20, 25,
\* is destroyed.
C13_NoResponseKeepsVelocity ==
    handler = "indestructable_projectile" =>
        /\ status = "running"
        /\ vel[ArrowBody] = 25 * VelScale
        /\ Arrow \in alive /\ slot["body"][Arrow] = <<ArrowBody>> /\ InSpace(heap, ArrowBody)
        /\ LoopOver => (/\ frame = Frames
                        /\ \A e \in Apples(handler) : Destroyed(e, BodyOf(e), ShapeOf(e))
                        /\ pos[ArrowBody] = 25 * PosScale)
C13_Witness ==
    /\ handler = "indestructable_projectile" /\ LoopOver
    /\ Cardinality(Apples(handler)) = AppleRow /\ alive = {Arrow}
    /\ vel[ArrowBody] = 25 * VelScale

\* C14: in projectile_collision (arrow at 0 moving at 10, apple at rest at
\* 10, the handler marks both) the frames of 1/60 s lead, within the 60
\* frames of the loop, to both entities destroyed, their bodies and shapes
\* out of the space and released.
C14_BothDestroyed ==
    (handler = "projectile_collision") ~>
        (/\ frame <= Frames /\ status = "running" /\ Quiet
         /\ Destroyed(Arrow, ArrowBody, ArrowShape)
         /\ Destroyed(Apple, AppleBody, AppleShape))
C14_Witness ==
    /\ handler = "projectile_collision" /\ Quiet /\ frame < Frames
    /\ Destroyed(Arrow, ArrowBody, ArrowShape)
    /\ Destroyed(Apple, AppleBody, AppleShape)

\* C15: while cpSpaceStep is in progress, callbacks included, no body or shape
\* enters or leaves the space or is released, no entity is destroyed and no
\* component or Collision mark changes; inside a frame, marks and entities
\* change only once the step has returned, when the deferred commands run.
C15_NoMutationDuringStep ==
    [][
       /\ pc = "stepping" =>
            /\ \A h \in Handles : heap'[h] = heap[h]
            /\ alive' = alive /\ slot' = slot /\ coll' = coll /\ hooked' = hooked
       /\ (pc # "idle" /\ (coll' # coll \/ alive' # alive)) => (pc = "merge" /\ steps = 1)
      ]_vars
C15_Witness ==
    /\ pc = "stepping" /\ status = "running"
    /\ Len(defq) = 2 /\ defq[1].op = "add" /\ defq[2].op = "add"
    /\ \A e \in Entities : coll[e] = {}

\* e is alive and carries a Collision mark
MarkedAlive(e) == e \in alive /\ coll[e] # {}
\* a Collision mark is on a live entity
AnyMarked == \E e \in alive : coll[e] # {}

\* C16 (as claimed): the Collision records are cleared before or during the
\* step that follows the one that produced them: when a step has returned no
\* entity carries a record.
C16_ClearedByNextStep == pc = "post" => ~AnyMarked

\* C16 (amended): a Collision record produced in the step of frame N is on its
\* entity during the step of frame N+1, is consumed by the removal system after
\* that step (a deferred delete for every entity that carries one), and is no
\* longer there in any later step.
C16_ClearedAfterNextStep ==
    /\ \A n \in 1..Frames, e \in 1..(1 + AppleRow) :
          []((MarkedAlive(e) /\ pc = "stepping" /\ frame = n)
                => []((pc = "stepping" /\ frame > n) => ~MarkedAlive(e)))
    /\ [][(pc = "post" /\ pc' = "merge") =>
            \A e \in alive : coll[e] # {} => \E i \in 1..Len(defq') : defq'[i] = Cmd("delete", e, 0)]_vars
C16_Witness ==
    /\ pc = "merge" /\ status = "running" /\ frame > 1
    /\ defq # <<>>
    /\ \E e \in alive : coll[e] # {} /\ Head(defq) = Cmd("delete", e, 0)

\* C17: an OnSet or OnRemove event of a Body or Shape that occurs while there
\* is no Space singleton stops the program; the hook is not skipped.
C17_HookWithoutSpaceFatal ==
    [][(spaceW = <<>> /\ todo # <<>> /\ Head(todo).op \in {"on_set", "on_remove"})
          => status' # "running"]_vars

\* C18: when the allocator returns a null pointer the construction of the
\* wrapper stops the program: no wrapper is constructed around null.
C18_NullHandleFatal == pc = "wrap_null" => status = "aborted"

\* C19 (as claimed): converting an empty wrapper (default-constructed,
\* moved-from) to the raw pointer does not stop the program.
C19_EmptyCastNoAbort ==
    [][\A w \in {"a", "b"} :
          (pc' = (IF w = "a" THEN "cast_a" ELSE "cast_b") /\ loc[w] = <<NULL>>)
            => status' = "running"]_vars

\* C19 (amended): converting an empty wrapper to the raw pointer changes
\* nothing and yields null in the first variant and for the unique_ptr Space
\* and Body (get()); in the simple-struct implementation, the second variant
\* and for the unique_ptr implementation's Shape it fails the assertion
\* "pointer not initialized".
C19_EmptyCastPerVariant ==
    [][\A w \in {"a", "b"} :
          (pc' = (IF w = "a" THEN "cast_a" ELSE "cast_b") /\ loc[w] = <<NULL>>) =>
            /\ heap' = heap /\ loc' = loc
            /\ IF impl = "first" \/ (impl = "unique_ptr" /\ wkind \in {"space", "body"})
               THEN status' = "running" /\ Cast(impl, wkind, loc[w][1]).val = NULL
               ELSE status' = "aborted"]_vars
C19_Witness ==
    /\ pc = "cast_b" /\ impl = "simple_struct" /\ wkind = "body"
    /\ loc.b = <<NULL>> /\ loc.a # <<>> /\ loc.a # <<NULL>>
    /\ status = "aborted"

\* C20: an empty wrapper used as a live handle fails an assertion: when
\* step_space runs and the Space wrapper it fetches is empty the program
\* stops on the assertion, cpSpaceStep is not called with a null pointer.
C20_EmptyWrapperAsserts ==
    [][(pc = "pre" /\ status = "running" /\ spaceW = <<>> /\ status' # status)
          => status' = "aborted"]_vars

\* C21: a default-constructed wrapper is empty, in every variant and for every
\* kind: the construction leaves it holding no handle and allocates nothing,
\* and destroying an empty wrapper releases nothing.
C21_DefaultIsEmpty ==
    [][\A w \in {"a", "b"} :
          /\ (pc' = "default" /\ loc[w] = <<>> /\ loc'[w] # <<>>)
                => (loc'[w] = <<NULL>> /\ heap' = heap)
          /\ (pc' = (IF w = "a" THEN "dtor_a" ELSE "dtor_b") /\ loc[w] = <<NULL>>)
                => (heap' = heap /\ status' = "running")]_vars

\* ~world has been entered (and possibly completed)
InTeardown == status = "done" \/ (todo # <<>> /\ Last(todo).op = "fini_done")

\* C22: the world has one Space handle, the one the import created: no other
\* cpSpace is ever allocated, the singleton holds that handle, live, from
\* the import until teardown, no operation before teardown replaces or
\* releases it, and teardown releases it exactly once.
C22_OneSpacePerWorld ==
    /\ \A h \in Handles : heap[h].kind = "space" <=> h = SpaceHandle
    /\ heap[SpaceHandle].frees <= 1
    /\ spaceW # <<>> => (spaceW = <<SpaceHandle>> /\ heap[SpaceHandle].st = "live"
                            /\ heap[SpaceHandle].frees = 0)
    /\ ~InTeardown => spaceW # <<>>
    /\ status = "done" => (spaceW = <<>> /\ heap[SpaceHandle].frees = 1)
C22_Witness ==
    /\ status = "done" /\ heap[SpaceHandle].frees = 1 /\ spaceW = <<>>
    /\ \E h \in Objects : heap[h].kind = "body" /\ heap[h].frees = 1

\* C23: with zero gravity, bodies at zero velocity and no contact, stepping
\* moves nothing: through the 60 frames of 1/60 s no step changes a position
\* or a velocity, so after them each body is exactly where it started (the
\* arrow at 0, the apple where it was put) and still at rest.
C23_NoDriftAtRest ==
    /\ [][pos' = pos /\ vel' = vel]_vars
    /\ [](/\ status = "running" /\ arbs = {}
          /\ pos[ArrowBody] = 0
          /\ \A e \in Apples(handler) : pos[BodyOf(e)] = ApplePosition(handler, e)
          /\ \A b \in Handles : vel[b] = 0
          /\ pc \in {"stepping", "post", "merge"} => stepDt = 1)
C23_Witness ==
    /\ frame = Frames /\ Quiet /\ steps = 1
    /\ pos[ArrowBody] = 0 /\ pos[AppleBody] = 10 * PosScale
    /\ InSpace(heap, ArrowBody) /\ InSpace(heap, AppleBody)

\* C24: body_on_set writes the entity id into the body's user data before it
\* adds the body to the space: at the step that makes a body a member of the
\* space its user data already is the id of the entity whose Body holds it,
\* and in every state, between the two calls of the hook included, a body
\* that is in the space (and not released) carries its owner's id.
C24_UserDataBeforeInsert ==
    /\ [][\A h \in Handles : (heap'[h].inSpace /\ ~heap[h].inSpace) =>
              /\ heap[h].kind = "body"
              /\ cpBodyGetUserData(heap, h) \in alive
              /\ slot["body"][cpBodyGetUserData(heap, h)] = <<h>>]_vars
    /\ [](\A h \in Handles : (heap[h].kind = "body" /\ InSpace(heap, h) /\ ~Freed(heap, h)) =>
              \E e \in alive : cpBodyGetUserData(heap, h) = e /\ slot["body"][e] = <<h>>)
\* between the two calls: the id is written, the body not yet in the space
C24_Witness ==
    /\ AtHead("on_set", "body") /\ Head(todo).h = 1
    /\ \E h \in Handles :
          /\ slot["body"][Head(todo).e] = <<h>>
          /\ cpBodyGetUserData(heap, h) = Head(todo).e /\ ~InSpace(heap, h)

\* C25: nothing orders the Body detach after the Shape detach: when
\* remove<Body> completes on an entity whose Shape, built against that body,
\* is attached and in the space, the body (already taken out of the space by
\* body_on_remove) is released without any assertion failing, and the shape
\* stays a component of the entity and a member of the space, still
\* referring to the released body.
C25_BodyDetachedUnderShape ==
    [][\A e \in Entities, b \in Handles, sh \in Handles :
          (/\ AtHead("commit_remove", "body") /\ Head(todo).e = e
           /\ slot["body"][e] = <<b>> /\ slot["shape"][e] = <<sh>>
           /\ heap[sh].sbody = b /\ InSpace(heap, sh) /\ ~Freed(heap, b)) =>
              /\ status' = "running"
              /\ ~InSpace(heap, b) /\ Freed(heap', b) /\ heap'[b].frees = 1
              /\ slot'["body"][e] = <<>> /\ slot'["shape"][e] = <<sh>>
              /\ InSpace(heap', sh) /\ heap'[sh].sbody = b /\ ~Freed(heap', sh)]_vars
C25_Witness ==
    /\ Quiet
    /\ \E e \in alive, sh \in Handles :
          /\ slot["body"][e] = <<>> /\ slot["shape"][e] = <<sh>> /\ hooked["shape"][e] = 1
          /\ InSpace(heap, sh) /\ ShapeBodyFreed(heap, sh)
          /\ cpBodyGetUserData(heap, heap[sh].sbody) = e /\ ~InSpace(heap, heap[sh].sbody)

\* C26: whatever makes OnSet fire (a first set, a set on a component already
\* there, modified), the hook never inserts a body that is already in the
\* space: whenever body_on_set comes to its cpSpaceAddBody call the body is
\* outside the space and the call goes through.
C26_NoInsertOfMember ==
    [][(AtHead("on_set", "body") /\ Head(todo).h = 1 /\ Held("body", Head(todo).e)) =>
          /\ ~InSpace(heap, slot["body"][Head(todo).e][1])
          /\ status' = "running"]_vars

\* C27 (as claimed): at teardown every body and shape is released before the
\* Space is: once the cpSpace is released no body or shape is left unreleased.
C27_ReleasedBeforeSpace ==
    Freed(heap, SpaceHandle) => \A h \in Objects : Freed(heap, h)

\* C27 (amended): at teardown every Body and Shape still held by a component is
\* taken out of the Space by its OnRemove observer before the Space is
\* released and before it is released itself: the cpSpace is released with no
\* member left, after its release nothing is added to it, removed from it or
\* handed to an observer, every release is of a handle outside the space, and
\* when teardown is over every body and shape has been released once. The
\* release of a body or shape may come after the release of the Space.
C27_DetachedBeforeSpaceFreed ==
    /\ [][/\ AtHead("fini_space", "none") => \A h \in Objects : ~InSpace(heap, h)
          /\ Freed(heap, SpaceHandle) => \A h \in Handles : heap'[h].inSpace = heap[h].inSpace
          /\ \A h \in Objects : heap'[h].frees > heap[h].frees => ~InSpace(heap, h)]_vars
    /\ [](/\ (status = "running" /\ todo # <<>> /\ Head(todo).op \in {"on_set", "on_remove"})
                => ~Freed(heap, SpaceHandle)
          /\ status = "done" =>
                \A h \in Objects : ~InSpace(heap, h) /\ heap[h].frees = 1)
\* the Space is released, an entity's Body and Shape, out of the space, are not yet
C27_Witness ==
    /\ AtHead("fini_table", "none") /\ Freed(heap, SpaceHandle)
    /\ \E e \in alive, b \in Handles, sh \in Handles :
          /\ slot["body"][e] = <<b>> /\ slot["shape"][e] = <<sh>>
          /\ ~Freed(heap, b) /\ ~Freed(heap, sh)
          /\ ~InSpace(heap, b) /\ ~InSpace(heap, sh)

\* C28: the two implementations are interchangeable: whatever call of the
\* store or observer is pending on a Body, in whatever state either of them
\* can reach, it has the same outcome in simple_struct_impl.cpp and in
\* unique_ptr_impl.cpp: the same foreign calls (the same heap afterwards),
\* the same handles left in the wrappers, and an assertion failure in the
\* one exactly when in the other.
C28_SameOutcomeInBoth ==
    /\ AtHead("assign", "body") =>
          MoveAssign("simple_struct", "body", heap, slot["body"][Head(todo).e][1], loc.a[1], FALSE)
            = MoveAssign("unique_ptr", "body", heap, slot["body"][Head(todo).e][1], loc.a[1], FALSE)
    /\ AtHead("dtor_tmp", "body") =>
          Dtor("simple_struct", "body", heap, loc.a[1]) = Dtor("unique_ptr", "body", heap, loc.a[1])
    /\ (AtHead("on_set", "body") /\ Head(todo).h = 0) =>
          BodyOnSet("simple_struct", heap, Head(todo).e, slot["body"][Head(todo).e][1], spaceW[1], Locked)
            = BodyOnSet("unique_ptr", heap, Head(todo).e, slot["body"][Head(todo).e][1], spaceW[1], Locked)
    /\ AtHead("on_remove", "body") =>
          BodyOnRemove("simple_struct", heap, Head(todo).e, slot["body"][Head(todo).e][1], spaceW[1], Locked)
            = BodyOnRemove("unique_ptr", heap, Head(todo).e, slot["body"][Head(todo).e][1], spaceW[1], Locked)
    /\ AtHead("commit_remove", "body") =>
          TableMove("simple_struct", heap, slot, coll, order, Head(todo).e, {"body"}, {}, FALSE)
            = TableMove("unique_ptr", heap, slot, coll, order, Head(todo).e, {"body"}, {}, FALSE)
    /\ AtHead("delete", "none") =>
          TableMove("simple_struct", heap, slot, coll, order, Head(todo).e, {"body", "shape"}, {}, TRUE)
            = TableMove("unique_ptr", heap, slot, coll, order, Head(todo).e, {"body", "shape"}, {}, TRUE)

\* the wrappers that hold handle h: the singleton, component slots, temporaries
Holders(h) ==
    {<<"space", 0>> : x \in {1} \cap (IF spaceW = <<h>> THEN {1} ELSE {})}
    \cup {<<k, e>> : <<k, e>> \in {q \in ObsKinds \X Entities : slot[q[1]][q[2]] = <<h>>}}
    \cup {<<w, 0>> : w \in {x \in {"a", "b"} : loc[x] = <<h>>}}

\* C29: a handle is never held by two wrappers at once: through every set,
\* emplace, remove, destruct, row move of the store and teardown, each
\* handle is in at most one of the singleton, the component slots and the
\* temporaries, and only in a wrapper of its own kind.
C29_OneHolderPerHandle ==
    \A h \in Handles :
        /\ Cardinality(Holders(h)) <= 1
        /\ \A k \in ObsKinds, e \in Entities : slot[k][e] = <<h>> => heap[h].kind = k
        /\ spaceW = <<h>> => heap[h].kind = "space"
\* the temporary of set() has just given its handle to the component, with
\* another entity holding a Body and a Shape of its own
C29_Witness ==
    /\ AtHead("on_set", "body") /\ loc.a = <<NULL>>
    /\ \E h \in Handles : Holders(h) = {<<"body", Head(todo).e>>}
    /\ \E e \in alive \ {Head(todo).e} : Held("body", e) /\ Held("shape", e)
\* the relation between the state before and after a statement of step_space
StepKeeps ==
    pc \in {"pre", "stepping"} =>
        /\ heap' = heap
        /\ spaceW' = spaceW /\ slot' = slot /\ loc' = loc
        /\ alive' = alive /\ order' = order /\ coll' = coll /\ hooked' = hooked
        /\ status' = "running"
        /\ \A i \in 1..Len(defq) : defq'[i] = defq[i]
        /\ \A b \in Handles :
              (pos'[b] # pos[b] \/ vel'[b] # vel[b]) => (heap[b].kind = "body" /\ InSpace(heap, b))

\* C30: a step of the space, its collision callbacks included, changes the
\* positions and velocities of bodies and queues what the callbacks ask
\* for, nothing else: the bodies and shapes that are in the space, every
\* body's user data, every foreign object's state, the handle in every
\* wrapper, the live entities and their components stay as they were.
C30_StepChangesOnlyPhysics ==
    [][StepKeeps]_vars
\* a step has returned in which the arrow, having moved, struck the apple:
\* the callback has queued its marks and the solver has changed velocities
C30_Witness ==
    /\ pc = "post" /\ status = "running"
    /\ pos[ArrowBody] > 0 /\ vel[ArrowBody] = vel[AppleBody] /\ vel[AppleBody] > 0
    /\ Len(defq) = 2
    /\ \A h \in {ArrowBody, ArrowShape, AppleBody, AppleShape} : InSpace(heap, h)
    /\ cpBodyGetUserData(heap, ArrowBody) = Arrow /\ cpBodyGetUserData(heap, AppleBody) = Apple

\* C31: a = std::move(a) does nothing: a holds the handle it held, no foreign
\* object is released or otherwise changed, b is untouched and no assertion
\* fails, whether or not the handle is in the space.
C31_SelfMoveAssignIsNoop ==
    [][pc' = "self_assign" => (loc' = loc /\ heap' = heap /\ status' = "running")]_vars
\* a simple_struct Body that is in the space has been assigned to itself and
\* still holds its live handle, which is still in the space
C31_Witness ==
    /\ pc = "self_assign" /\ status = "running"
    /\ impl = "simple_struct" /\ wkind = "body"
    /\ loc.a # <<>> /\ loc.a # <<NULL>>
    /\ heap[loc.a[1]].st = "live" /\ InSpace(heap, loc.a[1])
====
